---- MODULE Spec2Model ----
(***************************************************************************)
(* A model of the sigcxx signal/slot library: the Token (emitter side) and *)
(* Binding (receiver side) node pairs, the lists that own them, the        *)
(* destructor cascade, and SignalT::Emit walking the token list with a     *)
(* Slot cursor while callbacks mutate the lists.                           *)
(***************************************************************************)
EXTENDS Integers, Sequences, FiniteSets, TLC

\* ------------------------------------------------------------------ bounds
MaxNodes == 3      \* Connect calls in one behaviour (node ids are never reused)
MaxDepth == 2      \* nested Emit calls on the call stack
MaxPos == 2        \* largest |index| / start_pos / counts an operation is given
MaxList == 5       \* Connect calls in a behaviour of the one-signal list model

\* ----------------------------------------------------------------- objects
Null == 0
NoObj == "none"
Signals == {"N1", "N2"}
Receivers == {"R1", "R2"}
Trackables == Signals \cup Receivers
FireObjects == {"N1", "R1", "R2"}
ChainObjects == {"N1", "N2", "R1"}
ListObjects == {"N1", "R1"}
Methods == {"m1"}
NoArgs == "void"             \* the argument list of a SignalT<>
Args == {"a1", "a2"}         \* argument lists of a SignalT<ParamTypes...>
Indexes == (0 - MaxPos - 1)..MaxPos
Counts == (0 - 1)..MaxPos
ListIndexes == (0 - MaxList - 1)..MaxList
NodeIndexes == (0 - MaxNodes - 1)..MaxNodes
FilterMethods == {"m1", "m2"}
DefaultStartPos == 0 - 1     \* int start_pos = -1
DefaultCounts == 1           \* int counts = 1
FilterStarts == {0 - 1, 0}   \* start_pos of the filtered Disconnect steps
FilterCounts == {0 - 1, 1}   \* counts of the filtered Disconnect steps

VARIABLES
  tok,            \* internal::Token objects by id (sigcxx.hpp:84-97)
  bnd,            \* internal::Binding objects by id (sigcxx.hpp:68-79)
  first_token,    \* SignalT::first_token_ per signal
  last_token,     \* SignalT::last_token_ per signal
  first_binding,  \* Trackable::first_binding_ per trackable
  last_binding,   \* Trackable::last_binding_ per trackable
  stack,          \* the Emit calls in progress, outermost first (one Slot each)
  alive,          \* the Trackable objects not yet destroyed
  nextId,         \* the next node id operator new hands out
  dfree,          \* a destructor ran on an already destroyed node
  ub              \* "none", or what undefined behaviour the run has executed

vars == <<tok, bnd, first_token, last_token, first_binding, last_binding,
          stack, alive, nextId, dfree, ub>>

\* The node ids operator new can hand out in this behaviour.
Ids == DOMAIN tok

\* A Token as constructed (sigcxx.hpp:86-95), not yet allocated.  block is
\* not a member: it is the Token's address, named by the first Token that
\* operator new placed there (null: a block no Token had before).
NoToken ==
  [live |-> FALSE, trackable |-> NoObj, previous |-> Null, next |-> Null,
   binding |-> Null, slot_mark_head |-> <<>>,
   kind |-> "none", obj |-> NoObj, method |-> NoObj, block |-> Null]

\* A Binding as constructed (sigcxx.hpp:70-77), not yet allocated.  reuse is
\* not a member: it holds the signals that were not there when operator new
\* allocated the Binding, whose freed blocks the Binding may therefore lie in.
NoBinding ==
  [live |-> FALSE, trackable |-> NoObj, previous |-> Null, next |-> Null,
   token |-> Null, reuse |-> {}]

\* The whole program state as one record, threaded through the operators;
\* ret is the ret_count of the Disconnect call being executed.
St ==
  [tok |-> tok, bnd |-> bnd, first_token |-> first_token,
   last_token |-> last_token, first_binding |-> first_binding,
   last_binding |-> last_binding, stack |-> stack, dfree |-> dfree,
   ret |-> 0, fault |-> FALSE]

\* What a call leaves in ub: a call that read through the null binding of a
\* Token has faulted.
Outcome(s) ==
  IF s.fault THEN "crash" ELSE ub

Commit(s) ==
  /\ tok' = s.tok
  /\ bnd' = s.bnd
  /\ first_token' = s.first_token
  /\ last_token' = s.last_token
  /\ first_binding' = s.first_binding
  /\ last_binding' = s.last_binding
  /\ stack' = s.stack
  /\ dfree' = s.dfree

\* ------------------------------------------------------------ destructors
RECURSIVE TokenDtor(_, _), BindingDtor(_, _)

\* An AuditDestroyingToken that does nothing (the Trackable base version).
AuditDestroyingTokenBase(s, sig, t) == s

\* SignalT::AuditDestroyingToken: the owner fixes its head/tail.
AuditDestroyingToken(s, sig, t) ==
  LET ft == IF s.first_token[sig] = t THEN s.tok[t].next ELSE s.first_token[sig]
      lt == IF s.last_token[sig] = t THEN s.tok[t].previous ELSE s.last_token[sig]
  IN  [s EXCEPT !.first_token[sig] = ft, !.last_token[sig] = lt]

\* The Slot::Mark of stack frame i leaves whatever list it is on.  Mark is a
\* BiNode (sigcxx/deque.hpp): one node with one pair of links, which the spec
\* describes as the Cursor's "mark node registered on the current Anchor's
\* mark list".
UnlinkMark(s, i) ==
  [s EXCEPT !.tok = [t \in Ids |->
     [s.tok[t] EXCEPT !.slot_mark_head =
        SelectSeq(s.tok[t].slot_mark_head, LAMBDA j : j # i)]]]

\* The part of Token::~Token that serves the Slots parked on the token:
\* every Slot whose mark is on slot_mark_head is moved to the token's next
\* and told to skip its own advance; the marks leave the dying list.
RedirectMarks(s, t) ==
  LET parked == {s.tok[t].slot_mark_head[k] :
                   k \in 1..Len(s.tok[t].slot_mark_head)}
      nx == s.tok[t].next
  IN  [s EXCEPT
         !.stack = [i \in 1..Len(s.stack) |->
            IF i \in parked
              THEN [s.stack[i] EXCEPT !.token_ = nx, !.skip_ = TRUE]
              ELSE s.stack[i]],
         !.tok[t].slot_mark_head = <<>>]

\* A Token::~Token that leaves the previous token's next as it is.
TokenDtorLeavesPrevious(s, t) ==
  IF ~s.tok[t].live THEN [s EXCEPT !.dfree = TRUE]
  ELSE
    LET s0 == [s EXCEPT !.tok[t].live = FALSE]
        s1 == IF s0.tok[t].trackable # NoObj
                THEN AuditDestroyingToken(s0, s0.tok[t].trackable, t)
                ELSE s0
        s2 == RedirectMarks(s1, t)
        p  == s2.tok[t].previous
        n  == s2.tok[t].next
        s4 == IF n # Null THEN [s2 EXCEPT !.tok[n].previous = p] ELSE s2
        s5 == [s4 EXCEPT !.tok[t].previous = Null, !.tok[t].next = Null]
        b  == s5.tok[t].binding
        s6 == IF b # Null
                THEN LET r == BindingDtor([s5 EXCEPT !.bnd[b].token = Null], b)
                     IN  [r EXCEPT !.tok[t].binding = Null]
                ELSE s5
    IN  [s6 EXCEPT !.tok[t].trackable = NoObj]

\* A Token::~Token that deletes the Binding while the Binding still
\* references the Token.
TokenDtorKeepsBackReference(s, t) ==
  IF ~s.tok[t].live THEN [s EXCEPT !.dfree = TRUE]
  ELSE
    LET s0 == [s EXCEPT !.tok[t].live = FALSE]
        s1 == IF s0.tok[t].trackable # NoObj
                THEN AuditDestroyingToken(s0, s0.tok[t].trackable, t)
                ELSE s0
        s2 == RedirectMarks(s1, t)
        p  == s2.tok[t].previous
        n  == s2.tok[t].next
        s3 == IF p # Null THEN [s2 EXCEPT !.tok[p].next = n] ELSE s2
        s4 == IF n # Null THEN [s3 EXCEPT !.tok[n].previous = p] ELSE s3
        s5 == [s4 EXCEPT !.tok[t].previous = Null, !.tok[t].next = Null]
        b  == s5.tok[t].binding
        s6 == IF b # Null
                THEN [BindingDtor(s5, b) EXCEPT !.tok[t].binding = Null]
                ELSE s5
    IN  [s6 EXCEPT !.tok[t].trackable = NoObj]

\* Token::~Token: tell the owner, serve the parked Slots, unlink from the
\* neighbours, then null the pair reference on both sides and delete the
\* Binding.
TokenDtor(s, t) ==
  IF ~s.tok[t].live THEN [s EXCEPT !.dfree = TRUE]
  ELSE
    LET s0 == [s EXCEPT !.tok[t].live = FALSE]
        s1 == IF s0.tok[t].trackable # NoObj
                THEN AuditDestroyingToken(s0, s0.tok[t].trackable, t)
                ELSE s0
        s2 == RedirectMarks(s1, t)
        p  == s2.tok[t].previous
        n  == s2.tok[t].next
        s3 == IF p # Null THEN [s2 EXCEPT !.tok[p].next = n] ELSE s2
        s4 == IF n # Null THEN [s3 EXCEPT !.tok[n].previous = p] ELSE s3
        s5 == [s4 EXCEPT !.tok[t].previous = Null, !.tok[t].next = Null]
        b  == s5.tok[t].binding
        s6 == IF b # Null
                THEN LET r == BindingDtor([s5 EXCEPT !.bnd[b].token = Null], b)
                     IN  [r EXCEPT !.tok[t].binding = Null]
                ELSE s5
    IN  [s6 EXCEPT !.tok[t].trackable = NoObj]

\* Binding::~Binding: unlink from the owner's list (fixing its head/tail),
\* then null the pair reference on both sides and delete the Token.
BindingDtor(s, b) ==
  IF ~s.bnd[b].live THEN [s EXCEPT !.dfree = TRUE]
  ELSE
    LET s0 == [s EXCEPT !.bnd[b].live = FALSE]
        o  == s0.bnd[b].trackable
        p  == s0.bnd[b].previous
        n  == s0.bnd[b].next
        s1 == IF p # Null THEN [s0 EXCEPT !.bnd[p].next = n]
              ELSE IF o # NoObj THEN [s0 EXCEPT !.first_binding[o] = n]
              ELSE s0
        s2 == IF n # Null THEN [s1 EXCEPT !.bnd[n].previous = p]
              ELSE IF o # NoObj THEN [s1 EXCEPT !.last_binding[o] = p]
              ELSE s1
        s3 == [s2 EXCEPT !.bnd[b].previous = Null, !.bnd[b].next = Null]
        t  == s3.bnd[b].token
        s4 == IF t # Null
                THEN LET r == TokenDtor([s3 EXCEPT !.tok[t].binding = Null], t)
                     IN  [r EXCEPT !.bnd[b].token = Null]
                ELSE s3
    IN  [s4 EXCEPT !.bnd[b].trackable = NoObj]

\* ------------------------------------------------------ attaching the nodes
\* A link that sets only the Token's side of the pair.
LinkOneWay(s, t, b) ==
  [s EXCEPT !.tok[t].binding = b]

\* Trackable::link: pair a fresh Token with a fresh Binding.
link(s, t, b) ==
  [s EXCEPT !.tok[t].binding = b, !.bnd[b].token = t]

\* A PushBackBinding that forgets last_binding_->next = node.
PushBackBindingUnchained(s, o, b) ==
  LET lb == s.last_binding[o]
      s1 == IF lb # Null
              THEN [s EXCEPT !.bnd[b].previous = lb]
              ELSE [s EXCEPT !.bnd[b].previous = Null, !.first_binding[o] = b]
  IN  [s1 EXCEPT !.last_binding[o] = b, !.bnd[b].next = Null,
                 !.bnd[b].trackable = o]

\* A PushBackBinding that puts the Binding at the head of the list.
PushBackBindingAtFront(s, o, b) ==
  LET fb == s.first_binding[o]
      s1 == IF fb # Null
              THEN [s EXCEPT !.bnd[fb].previous = b, !.bnd[b].next = fb]
              ELSE [s EXCEPT !.bnd[b].next = Null, !.last_binding[o] = b]
  IN  [s1 EXCEPT !.first_binding[o] = b, !.bnd[b].previous = Null,
                 !.bnd[b].trackable = o]

\* Trackable::PushBackBinding: append the Binding to the receiver's list.
PushBackBinding(s, o, b) ==
  LET lb == s.last_binding[o]
      s1 == IF lb # Null
              THEN [s EXCEPT !.bnd[lb].next = b, !.bnd[b].previous = lb]
              ELSE [s EXCEPT !.bnd[b].previous = Null, !.first_binding[o] = b]
  IN  [s1 EXCEPT !.last_binding[o] = b, !.bnd[b].next = Null,
                 !.bnd[b].trackable = o]

\* AbstractTrackable::PushFrontBinding: the Binding becomes the head of the
\* receiver's list.
PushFrontBinding(s, o, b) ==
  LET fb == s.first_binding[o]
      s1 == IF fb # Null
              THEN [s EXCEPT !.bnd[fb].previous = b, !.bnd[b].next = fb]
              ELSE [s EXCEPT !.bnd[b].next = Null, !.last_binding[o] = b]
  IN  [s1 EXCEPT !.first_binding[o] = b, !.bnd[b].previous = Null,
                 !.bnd[b].trackable = o]

\* The walk of InsertBinding: while (p && index > 0) { if (p->next == 0)
\* break; p = p->next; index--; }; the pair <<p, index left>>.
RECURSIVE WalkBinding(_, _, _)
WalkBinding(s, p, index) ==
  IF p # Null /\ index > 0 /\ s.bnd[p].next # Null
    THEN WalkBinding(s, s.bnd[p].next, index - 1)
    ELSE <<p, index>>

\* AbstractTrackable::InsertBinding(index, node).
InsertBinding(s, o, index, b) ==
  LET fb == s.first_binding[o]
      s1 ==
        IF fb = Null
          THEN [s EXCEPT !.bnd[b].next = Null, !.last_binding[o] = b,
                         !.first_binding[o] = b, !.bnd[b].previous = Null]
        ELSE IF index > 0
          THEN LET w == WalkBinding(s, fb, index)
                   p == w[1]
                   pv == s.bnd[p].previous
                   lb == s.last_binding[o]
               IN  IF w[2] = 0
                     THEN [s EXCEPT !.bnd[b].previous = pv, !.bnd[b].next = p,
                                    !.bnd[pv].next = b, !.bnd[p].previous = b]
                     ELSE [s EXCEPT !.bnd[lb].next = b, !.bnd[b].previous = lb,
                                    !.last_binding[o] = b, !.bnd[b].next = Null]
          ELSE [s EXCEPT !.bnd[fb].previous = b, !.bnd[b].next = fb,
                         !.first_binding[o] = b, !.bnd[b].previous = Null]
  IN  [s1 EXCEPT !.bnd[b].trackable = o]

\* Trackable::push_front(trackable, binding):
\* trackable->PushBackBinding(binding).
push_front(s, o, b) == PushBackBinding(s, o, b)

\* Trackable::push_back(trackable, binding).
push_back(s, o, b) == PushBackBinding(s, o, b)

\* Trackable::insert(trackable, binding, index).
insert(s, o, b, index) == InsertBinding(s, o, index, b)

\* new internal::Binding: node b, attached to nothing.
NewBinding(s, b) ==
  [s EXCEPT !.bnd[b] = [NoBinding EXCEPT !.live = TRUE,
                                         !.reuse = Signals \ alive]]

\* p = p->next, k times or until p is null; the pair <<p, k left>>.
RECURSIVE WalkNext(_, _, _)
WalkNext(s, p, k) ==
  IF p # Null /\ k > 0 THEN WalkNext(s, s.tok[p].next, k - 1) ELSE <<p, k>>

\* A backward walk that goes on while index < 0.
RECURSIVE WalkPrevToZero(_, _, _)
WalkPrevToZero(s, p, k) ==
  IF p # Null /\ k < 0 THEN WalkPrevToZero(s, s.tok[p].previous, k + 1) ELSE <<p, k>>

\* p = p->previous while index < -1 and p is not null.
RECURSIVE WalkPrev(_, _, _)
WalkPrev(s, p, k) ==
  IF p # Null /\ k < 0 - 1 THEN WalkPrev(s, s.tok[p].previous, k + 1) ELSE <<p, k>>

\* SignalT::InsertToken: index >= 0 counts from the head (insert before the
\* node found, or push back), index < 0 from the tail (insert after the node
\* found, or push front).
InsertToken(s, sig, index, t) ==
  LET ft == s.first_token[sig]
      lt == s.last_token[sig]
      r ==
        IF ft = Null
          THEN [s EXCEPT !.tok[t].next = Null, !.last_token[sig] = t,
                         !.first_token[sig] = t, !.tok[t].previous = Null]
        ELSE IF index >= 0
          THEN LET p == WalkNext(s, ft, index)[1] IN
               IF p # Null
                 THEN LET pp == s.tok[p].previous
                          a == [s EXCEPT !.tok[t].previous = pp, !.tok[t].next = p]
                          c == IF pp # Null THEN [a EXCEPT !.tok[pp].next = t]
                               ELSE [a EXCEPT !.first_token[sig] = t]
                      IN  [c EXCEPT !.tok[p].previous = t]
                 ELSE [s EXCEPT !.tok[lt].next = t, !.tok[t].previous = lt,
                                !.last_token[sig] = t, !.tok[t].next = Null]
        ELSE LET p == WalkPrev(s, lt, index)[1] IN
             IF p # Null
               THEN LET pn == s.tok[p].next
                        a == [s EXCEPT !.tok[t].next = pn, !.tok[t].previous = p]
                        c == IF pn # Null THEN [a EXCEPT !.tok[pn].previous = t]
                             ELSE [a EXCEPT !.last_token[sig] = t]
                    IN  [c EXCEPT !.tok[p].next = t]
               ELSE [s EXCEPT !.tok[ft].previous = t, !.tok[t].next = ft,
                              !.first_token[sig] = t, !.tok[t].previous = Null]
  IN  [r EXCEPT !.tok[t].trackable = sig]

\* SignalT::PushBackToken: the Token becomes the tail of the signal's list.
PushBackToken(s, sig, t) ==
  LET lt == s.last_token[sig]
      s1 == IF lt # Null
              THEN [s EXCEPT !.tok[lt].next = t, !.tok[t].previous = lt]
              ELSE [s EXCEPT !.tok[t].previous = Null, !.first_token[sig] = t]
  IN  [s1 EXCEPT !.last_token[sig] = t, !.tok[t].next = Null,
                 !.tok[t].trackable = sig]

\* SignalT::PushFrontToken: the Token becomes the head of the signal's list.
PushFrontToken(s, sig, t) ==
  LET ft == s.first_token[sig]
      s1 == IF ft # Null
              THEN [s EXCEPT !.tok[ft].previous = t, !.tok[t].next = ft]
              ELSE [s EXCEPT !.tok[t].next = Null, !.last_token[sig] = t]
  IN  [s1 EXCEPT !.first_token[sig] = t, !.tok[t].previous = Null,
                 !.tok[t].trackable = sig]

\* new DelegateTokenT(d) by the caller of the public PushBackToken,
\* PushFrontToken or InsertToken: Token n, linked to no Binding.
NewToken(s, n, kind, obj, method) ==
  [s EXCEPT !.tok[n] = [NoToken EXCEPT !.live = TRUE, !.kind = kind,
                                       !.obj = obj, !.method = method]]

\* operator new of one Token (a DelegateTokenT or SignalTokenT) and one
\* Binding; both get the id n.
NewPair(s, n, kind, obj, method) ==
  [s EXCEPT !.tok[n] = [NoToken EXCEPT !.live = TRUE, !.kind = kind,
                                       !.obj = obj, !.method = method],
            !.bnd[n] = [NoBinding EXCEPT !.live = TRUE,
                                         !.reuse = Signals \ alive]]

\* A Connect that does nothing when the signal already holds a connection of
\* the same kind to the same receiver and method.
ConnectOpDeduplicating(s, sig, n, kind, obj, method, index) ==
  IF \E t \in DOMAIN s.tok :
       /\ s.tok[t].live /\ s.tok[t].trackable = sig
       /\ s.tok[t].kind = kind /\ s.tok[t].obj = obj
       /\ s.tok[t].method = method
    THEN s
    ELSE PushBackBinding(
           InsertToken(link(NewPair(s, n, kind, obj, method), n, n),
                       sig, index, n),
           obj, n)

\* SignalT::Connect, both overloads: new pair, link, InsertToken, push_back.
ConnectOp(s, sig, n, kind, obj, method, index) ==
  PushBackBinding(InsertToken(link(NewPair(s, n, kind, obj, method), n, n),
                              sig, index, n),
                  obj, n)

\* ------------------------------------------------------------- disconnecting
\* The forward delete loop of SignalT::Disconnect(int, int) and of
\* DisconnectAll(): tmp = it; it = it->next; ret_count++; counts--;
\* delete tmp; stop when counts reaches 0.
RECURSIVE DeleteForward(_, _, _)
DeleteForward(s, it, counts) ==
  IF it = Null THEN s
  ELSE LET nx == s.tok[it].next
           s1 == TokenDtor([s EXCEPT !.ret = s.ret + 1], it)
       IN  IF counts - 1 = 0 THEN s1 ELSE DeleteForward(s1, nx, counts - 1)

\* A backward delete loop that moves toward the tail.
DeleteBackwardTowardTail(s, it, counts) ==
  DeleteForward(s, it, counts)

\* A backward delete loop that stops after one token.
DeleteBackwardOnce(s, it, counts) ==
  IF it = Null THEN s ELSE TokenDtor([s EXCEPT !.ret = s.ret + 1], it)

\* The backward delete loop of SignalT::Disconnect(int, int).
RECURSIVE DeleteBackward(_, _, _)
DeleteBackward(s, it, counts) ==
  IF it = Null THEN s
  ELSE LET pv == s.tok[it].previous
           s1 == TokenDtor([s EXCEPT !.ret = s.ret + 1], it)
       IN  IF counts - 1 = 0 THEN s1 ELSE DeleteBackward(s1, pv, counts - 1)

\* SignalT::Disconnect(int start_pos, int counts).
DisconnectOp(s, sig, start_pos, counts) ==
  IF start_pos >= 0
    THEN DeleteForward(s, WalkNext(s, s.first_token[sig], start_pos)[1], counts)
    ELSE DeleteBackward(s, WalkPrev(s, s.last_token[sig], start_pos)[1], counts)

\* What a filtered Disconnect, IsConnectedTo or CountConnections looks for:
\* the delegates to obj.method, or the connections to the signal other.
MethodFilter(obj, method) == [kind |-> "delegate", obj |-> obj, method |-> method]
SignalFilter(other) == [kind |-> "signal", obj |-> other, method |-> "emit"]

\* A match test that looks at the receiver only.
MatchObjectOnly(s, t, flt) ==
  s.bnd[s.tok[t].binding].trackable = flt.obj

\* A match test that compares the method and not the receiver it is bound to.
MatchAnyReceiver(s, t, flt) ==
  /\ s.tok[t].kind = flt.kind
  /\ s.tok[t].method = flt.method

\* tmp->binding->trackable == obj, the dynamic_cast to the token class, and
\* delegate().Equal(obj, method) or signal() == &other.
Match(s, t, flt) ==
  /\ s.bnd[s.tok[t].binding].trackable = flt.obj
  /\ s.tok[t].kind = flt.kind
  /\ s.tok[t].obj = flt.obj
  /\ s.tok[t].method = flt.method

\* The forward delete loop of the filtered Disconnect overloads: a token that
\* matches is counted and deleted; counts is tested after every token.  The
\* test reads tmp->binding->trackable first: on a Token without a Binding (one
\* attached by PushBackToken, PushFrontToken or InsertToken) the call reads
\* through a null pointer and ends there.
RECURSIVE DeleteMatchingForward(_, _, _, _)
DeleteMatchingForward(s, it, counts, flt) ==
  IF it = Null THEN s
  ELSE IF s.tok[it].binding = Null THEN [s EXCEPT !.fault = TRUE]
  ELSE LET nx == s.tok[it].next
           hit == Match(s, it, flt)
           s1 == IF hit THEN TokenDtor([s EXCEPT !.ret = s.ret + 1], it) ELSE s
           c1 == IF hit THEN counts - 1 ELSE counts
       IN  IF c1 = 0 THEN s1 ELSE DeleteMatchingForward(s1, nx, c1, flt)

\* The backward delete loop of the filtered Disconnect overloads.
RECURSIVE DeleteMatchingBackward(_, _, _, _)
DeleteMatchingBackward(s, it, counts, flt) ==
  IF it = Null THEN s
  ELSE IF s.tok[it].binding = Null THEN [s EXCEPT !.fault = TRUE]
  ELSE LET pv == s.tok[it].previous
           hit == Match(s, it, flt)
           s1 == IF hit THEN TokenDtor([s EXCEPT !.ret = s.ret + 1], it) ELSE s
           c1 == IF hit THEN counts - 1 ELSE counts
       IN  IF c1 = 0 THEN s1 ELSE DeleteMatchingBackward(s1, pv, c1, flt)

\* A filtered Disconnect that always scans forward from the head.
DisconnectMatchingFromHead(s, sig, flt, start_pos, counts) ==
  DeleteMatchingForward(s, s.first_token[sig], counts, flt)

\* SignalT::Disconnect(obj, method, start_pos, counts) and
\* SignalT::Disconnect(other, start_pos, counts).
DisconnectMatchingOp(s, sig, flt, start_pos, counts) ==
  IF start_pos >= 0
    THEN DeleteMatchingForward(
           s, WalkNext(s, s.first_token[sig], start_pos)[1], counts, flt)
    ELSE DeleteMatchingBackward(
           s, WalkPrev(s, s.last_token[sig], start_pos)[1], counts, flt)

\* A DisconnectAll that stops after the first token.
DisconnectFirstOnly(s, sig) ==
  DeleteForward(s, s.first_token[sig], 1)

\* SignalT::DisconnectAll(): delete every token from the head on.
DisconnectAllOp(s, sig) ==
  DeleteForward(s, s.first_token[sig], 0 - 1)

\* Trackable::~Trackable: delete every Binding of the list, head first.
RECURSIVE RemoveBindingsFrom(_, _)
RemoveBindingsFrom(s, p) ==
  IF p = Null THEN s
  ELSE LET tmp == s.bnd[p].next
       IN  RemoveBindingsFrom(BindingDtor(s, p), tmp)

\* A destructor loop that deletes the first Binding only.
RemoveFirstBindingOnly(s, o) ==
  IF s.first_binding[o] = Null THEN s ELSE BindingDtor(s, s.first_binding[o])

RemoveAllBindings(s, o) ==
  RemoveBindingsFrom(s, s.first_binding[o])

\* dynamic_cast of b's token to the DelegateTokenT class (null for a Binding
\* without Token) and delegate().Equal(this, method), for the trackable obj.
MatchBinding(s, b, obj, method) ==
  /\ s.bnd[b].token # Null
  /\ s.tok[s.bnd[b].token].kind = "delegate"
  /\ s.tok[s.bnd[b].token].obj = obj
  /\ s.tok[s.bnd[b].token].method = method

\* The loop of Trackable::UnbindAllSignalsTo: from the last binding toward
\* the first, a binding whose token matches is deleted.
RECURSIVE UnbindMatchingBackward(_, _, _, _)
UnbindMatchingBackward(s, it, obj, method) ==
  IF it = Null THEN s
  ELSE LET pv == s.bnd[it].previous
           s1 == IF MatchBinding(s, it, obj, method) THEN BindingDtor(s, it) ELSE s
       IN  UnbindMatchingBackward(s1, pv, obj, method)

\* An UnbindAllSignalsTo that deletes every binding of the receiver.
UnbindAllSignalsToAnyMethod(s, obj, method) ==
  RemoveAllBindings(s, obj)

\* Trackable::UnbindAllSignalsTo(method), called on the receiver obj.
UnbindAllSignalsToOp(s, obj, method) ==
  UnbindMatchingBackward(s, s.last_binding[obj], obj, method)

\* The loop of SignalT::DisconnectAll(obj, method) and DisconnectAll(other):
\* from the last token toward the first, a token that matches is deleted.
RECURSIVE DisconnectAllMatchingFrom(_, _, _)
DisconnectAllMatchingFrom(s, it, flt) ==
  IF it = Null THEN s
  ELSE IF s.tok[it].binding = Null THEN [s EXCEPT !.fault = TRUE]
  ELSE LET pv == s.tok[it].previous
           s1 == IF Match(s, it, flt) THEN TokenDtor(s, it) ELSE s
       IN  DisconnectAllMatchingFrom(s1, pv, flt)

\* SignalT::DisconnectAll(obj, method) and SignalT::DisconnectAll(other).
DisconnectAllMatchingOp(s, sig, flt) ==
  DisconnectAllMatchingFrom(s, s.last_token[sig], flt)

\* A ~SignalT that is not followed by the Trackable base destructor.
DestroyOpOwnTokensOnly(s, o) ==
  IF o \in Signals THEN DisconnectAllOp(s, o) ELSE RemoveAllBindings(s, o)

\* SignalT::~SignalT runs DisconnectAll() and then the Trackable base
\* destructor; a plain Trackable runs only the latter.
DestroyOp(s, o) ==
  IF o \in Signals
    THEN RemoveAllBindings(DisconnectAllOp(s, o), o)
    ELSE RemoveAllBindings(s, o)

\* Trackable::UnbindSignal(SLOT slot), called from stack frame i's callback:
\* the connection the slot stands on is deleted.
UnbindSignalOp(s, i) ==
  TokenDtor(s, s.stack[i].token_)

\* ------------------------------------------------- history of each Emit call
\* Each stack frame also records, for the properties below, the token list
\* its Emit call found at entry (entry), the tokens it has invoked so far
\* (inv) and what callbacks have done to the lists since it was entered (mut):
\*   "none"   nothing was connected or disconnected
\*   "conn"   tokens were connected, nothing was disconnected; entry is then
\*            the tokens invoked so far followed by the tokens that stand
\*            after the Slot's token in the list as it is now
\*   "self1"  one callback disconnected the token being invoked, nothing else
\*   "selfn"  several callbacks did so, each its own token, nothing else
\*   "del"    tokens were disconnected one at a time, none of them while a
\*            callback whose own token was already gone was still running,
\*            and none of them the token an enclosing Emit stands on
\*   "other"  anything else (entry, inv and log are then no longer recorded)
\* and the delegates invoked by the call and by the Emit calls its
\* SignalTokenT tokens forwarded to (log), each as <<object, method, args>>.

\* The tokens of sig's list, head to tail, following next.
RECURSIVE TokensFrom(_, _, _)
TokensFrom(s, t, fuel) ==
  IF t = Null \/ fuel = 0 THEN <<>>
  ELSE <<t>> \o TokensFrom(s, s.tok[t].next, fuel - 1)

TokList(s, sig) == TokensFrom(s, s.first_token[sig], Cardinality(Ids))

\* The bindings of o's list, head to tail, following next.
RECURSIVE BindingsFrom(_, _, _)
BindingsFrom(s, b, fuel) ==
  IF b = Null \/ fuel = 0 THEN <<>>
  ELSE <<b>> \o BindingsFrom(s, s.bnd[b].next, fuel - 1)

BndList(s, o) == BindingsFrom(s, s.first_binding[o], Cardinality(Ids))

Range(q) == {q[k] : k \in 1..Len(q)}

Forget(f) ==
  [f EXCEPT !.mut = "other", !.entry = <<>>, !.inv = <<>>, !.log = <<>>]

AfterSelf(f) ==
  CASE f.mut = "none" -> [f EXCEPT !.mut = "self1"]
    [] f.mut = "self1" -> [f EXCEPT !.mut = "selfn"]
    [] f.mut = "conn" -> Forget(f)
    [] OTHER -> f

AfterDel(f) ==
  IF f.mut \in {"other", "conn"} THEN Forget(f)
  ELSE [f EXCEPT !.mut = "del", !.entry = <<>>]

\* The elements of q that stand after its element t.
Behind(q, t) ==
  IF t \notin Range(q) THEN <<>>
  ELSE LET k == CHOOSE j \in 1..Len(q) : q[j] = t
       IN  SubSeq(q, k + 1, Len(q))

AfterConnect(s1, f) ==
  IF f.mut \in {"none", "conn"} /\ f.pc \in {"cb", "fwd"}
    THEN [f EXCEPT !.mut = "conn", !.log = <<>>,
                   !.entry = f.inv \o Behind(TokList(s1, f.sig), f.token_)]
    ELSE Forget(f)

\* s1 is s0 after an operation that connected a token.
NoteConnect(s1) ==
  [s1 EXCEPT !.stack = [i \in 1..Len(s1.stack) |-> AfterConnect(s1, s1.stack[i])]]

\* s1 is s0 after an operation that may have destroyed tokens.
NoteRemoval(s0, s1) ==
  LET gone == {t \in Ids : s0.tok[t].live /\ ~s1.tok[t].live}
      top == Len(s0.stack)
      benign ==
        /\ Cardinality(gone) = 1
        /\ \A i \in 1..top : ~s0.stack[i].skip_
        /\ \A t \in gone : \A i \in Range(s0.tok[t].slot_mark_head) : i = top
      own == \E t \in gone : top \in Range(s0.tok[t].slot_mark_head)
  IN  IF gone = {} THEN s1
      ELSE [s1 EXCEPT !.stack = [i \in 1..Len(s1.stack) |->
              IF ~benign THEN Forget(s1.stack[i])
              ELSE IF i = top /\ own THEN AfterSelf(s1.stack[i])
              ELSE AfterDel(s1.stack[i])]]

\* ----------------------------------------------------------------- Emit
Top == stack[Len(stack)]

\* Application code runs either outside every Emit or inside the callback
\* the innermost Emit is invoking.
CanCall ==
  /\ ub # "crash"
  /\ IF stack = <<>> THEN TRUE ELSE Top.pc = "cb"

\* A Slot that starts at the last token instead of the first.
NewSlotAtLast(sig) ==
  [sig |-> sig, token_ |-> last_token[sig], skip_ |-> FALSE,
   pc |-> "loop", self |-> NoObj, args |-> NoArgs,
   entry |-> TokList(St, sig), inv |-> <<>>, mut |-> "none", log |-> <<>>]

\* Slot::Slot(first_token()): the cursor of a new Emit call.
NewSlot(sig) ==
  [sig |-> sig, token_ |-> first_token[sig], skip_ |-> FALSE,
   pc |-> "loop", self |-> NoObj, args |-> NoArgs,
   entry |-> TokList(St, sig), inv |-> <<>>, mut |-> "none", log |-> <<>>]

\* Stack frame i invokes the callable of its token.
Invoked(s, i) ==
  IF s.stack[i].mut = "other" THEN s
  ELSE [s EXCEPT !.stack[i].inv = Append(s.stack[i].inv, s.stack[i].token_)]

\* Stack frame i's DelegateTokenT::Invoke calls delegate_(Args..., slot).
Delegated(s, i) ==
  LET f == s.stack[i]
  IN  IF f.mut = "other" THEN s
      ELSE [s EXCEPT !.stack[i].log =
              Append(f.log, <<s.tok[f.token_].obj, s.tok[f.token_].method, f.args>>)]

\* The Emit call of frame i has returned to the SignalTokenT::Invoke of
\* frame i - 1, which is popped to here.
Forwarded(s, inner) ==
  LET i == Len(s.stack)
  IN  IF s.stack[i].mut = "other" THEN s
      ELSE [s EXCEPT !.stack[i].log = s.stack[i].log \o inner.log]

\* The address of Token t.
BlockOf(s, t) ==
  IF s.tok[t].block = Null THEN t ELSE s.tok[t].block

\* The Token that a pointer to address a finds: the last one operator new
\* placed there, destroyed or not.
Occupant(a) ==
  CHOOSE t \in Ids :
    /\ tok[t].kind # "none" /\ BlockOf(St, t) = a
    /\ \A u \in Ids : (tok[u].kind # "none" /\ BlockOf(St, u) = a) => u <= t

\* The token field of Binding b as a read through another pointer finds it:
\* of a Binding that has been freed, what ~Binding stored there last (null)
\* or, the store to a dying object being dropped by the compiler, still the
\* address of the Token allocated with it (the one of the same id), where
\* that Token or a later one in its block is found.
BindingTokenRead(b) ==
  IF bnd[b].live THEN {bnd[b].token}
  ELSE {Null} \cup (IF tok[b].kind # "none"
                      THEN {Occupant(BlockOf(St, b))} ELSE {})

\* signal_->first_token_ as Emit reads it.  Of a destroyed signal the freed
\* block reads as ~SignalT left it, or the allocator has since given the
\* block to a Binding, whose token field lies where first_token_ was.
FirstTokenRead(o) ==
  IF o \in alive THEN {first_token[o]}
  ELSE {first_token[o]}
         \cup UNION {BindingTokenRead(b) : b \in {x \in Ids : o \in bnd[x].reuse}}

\* A SignalTokenT::Invoke that calls signal_->Emit() without the arguments.
SignalTokenInvokeNoArgs(f) ==
  NewSlot(tok[f.token_].obj)

\* SignalTokenT::Invoke of frame f's token: signal_->Emit(Args...).
SignalTokenInvoke(f) ==
  [NewSlot(tok[f.token_].obj) EXCEPT !.args = f.args]

\* A loop head that does not park the mark.
PushBackMarkNone(s, i) == s

\* BiNode::PushBack (sigcxx/deque.hpp) of the mark of stack frame i on the
\* slot_mark_head of token t: the mark is registered on t's list, last, and
\* is then on no other list.
PushBack(s, t, i) ==
  LET u == UnlinkMark(s, i)
  IN  [u EXCEPT !.tok[t].slot_mark_head = Append(u.tok[t].slot_mark_head, i)]

\* slot.token_->slot_mark_head.PushBack(&slot.mark_) for stack frame i.
PushBackMark(s, i) ==
  PushBack(s, s.stack[i].token_, i)

\* Slot::~Slot (defaulted) destroys mark_: the mark of stack frame i, a
\* BiNode, leaves the list it is on.  The spec has the Cursor "destroyed at
\* Fire return" and an Anchor hold the marks of the outstanding Cursors.
SlotDtor(s, i) ==
  UnlinkMark(s, i)

\* A loop tail that advances the Slot whether or not skip_ is set.
EmitAdvanceAlways(s, i) ==
  [s EXCEPT !.stack[i].skip_ = FALSE,
            !.stack[i].token_ = IF s.stack[i].token_ = Null THEN Null
                                ELSE s.tok[s.stack[i].token_].next]

\* A loop tail whose ++slot steps over one token.
EmitAdvanceSkipping(s, i) ==
  IF s.stack[i].skip_
    THEN [s EXCEPT !.stack[i].skip_ = FALSE]
    ELSE LET n == s.tok[s.stack[i].token_].next
         IN  [s EXCEPT !.stack[i].token_ =
                IF n = Null THEN Null ELSE s.tok[n].next]

\* The tail of the Emit loop body for stack frame i:
\* if (slot.skip_) slot.skip_ = false; else ++slot;
EmitAdvance(s, i) ==
  IF s.stack[i].skip_
    THEN [s EXCEPT !.stack[i].skip_ = FALSE]
    ELSE [s EXCEPT !.stack[i].token_ = s.tok[s.stack[i].token_].next]

\* ------------------------------------------------------------------ actions
Init ==
  /\ tok = [i \in 1..MaxNodes |-> NoToken]
  /\ bnd = [i \in 1..MaxNodes |-> NoBinding]
  /\ first_token = [g \in Signals |-> Null]
  /\ last_token = [g \in Signals |-> Null]
  /\ first_binding = [o \in Trackables |-> Null]
  /\ last_binding = [o \in Trackables |-> Null]
  /\ stack = <<>>
  /\ alive \in SUBSET Trackables
  /\ nextId = 1
  /\ dfree = FALSE
  /\ ub = "none"

\* The destroyed Tokens that the Slot of a running Emit still points at.
Dangling ==
  {t \in Ids : ~tok[t].live /\ \E i \in 1..Len(stack) : stack[i].token_ = t}

\* The destroyed Tokens whose address is still in the token field of a freed
\* Binding that an Emit can read: the Binding was allocated after a signal
\* was destroyed to which a SignalTokenT still points.
StaleHeld ==
  {t \in Ids :
     /\ tok[t].kind # "none" /\ ~tok[t].live
     /\ \E b \in Ids :
          /\ ~bnd[b].live /\ tok[b].kind # "none"
          /\ t = Occupant(BlockOf(St, b))
          /\ \E o \in bnd[b].reuse \ alive :
               \E u \in Ids : tok[u].kind = "signal" /\ tok[u].obj = o}

\* The destroyed Tokens to which a pointer that can still be read is left.
Reusable ==
  Dangling \cup StaleHeld

\* operator new may hand the new Token n the block of a destroyed Token d
\* (d = Null: it hands out another block): every Slot that still holds d's
\* address then points at Token n, and so does every other pointer to it.
ReuseBlock(s, d, n) ==
  IF d = Null THEN s
  ELSE [s EXCEPT !.tok[n].block = BlockOf(s, d),
                 !.stack = [i \in 1..Len(s.stack) |->
          IF s.stack[i].token_ = d
            THEN [s.stack[i] EXCEPT !.token_ = n]
            ELSE s.stack[i]]]

\* sig.Connect(obj, &T::method, index)
Connect(sig, obj, method, index) ==
  /\ CanCall
  /\ nextId \in Ids
  /\ sig \in alive /\ obj \in alive
  /\ \E d \in Reusable \cup {Null} :
       Commit(NoteConnect(ReuseBlock(
         ConnectOp(St, sig, nextId, "delegate", obj, method, index),
         d, nextId)))
  /\ nextId' = nextId + 1
  /\ UNCHANGED <<alive, ub>>

\* sig.Connect(other, index)
ConnectSignal(sig, other, index) ==
  /\ CanCall
  /\ nextId \in Ids
  /\ sig \in alive /\ other \in alive
  /\ \E d \in Reusable \cup {Null} :
       Commit(NoteConnect(ReuseBlock(
         ConnectOp(St, sig, nextId, "signal", other, "emit", index),
         d, nextId)))
  /\ nextId' = nextId + 1
  /\ UNCHANGED <<alive, ub>>

\* sig.PushBackToken(new DelegateTokenT(obj, method)), called by application
\* code: the Token is attached without a Binding.
PushBackTokenCall(sig, kind, obj, method) ==
  /\ CanCall
  /\ nextId \in Ids
  /\ sig \in alive /\ obj \in alive
  /\ \E d \in Reusable \cup {Null} :
       Commit(NoteConnect(ReuseBlock(
         PushBackToken(NewToken(St, nextId, kind, obj, method),
                       sig, nextId),
         d, nextId)))
  /\ nextId' = nextId + 1
  /\ UNCHANGED <<alive, ub>>

\* sig.PushFrontToken(new DelegateTokenT(obj, method)) or
\* sig.PushFrontToken(new SignalTokenT(obj))
PushFrontTokenCall(sig, kind, obj, method) ==
  /\ CanCall
  /\ nextId \in Ids
  /\ sig \in alive /\ obj \in alive
  /\ \E d \in Reusable \cup {Null} :
       Commit(NoteConnect(ReuseBlock(
         PushFrontToken(NewToken(St, nextId, kind, obj, method),
                        sig, nextId),
         d, nextId)))
  /\ nextId' = nextId + 1
  /\ UNCHANGED <<alive, ub>>

\* sig.InsertToken(index, new DelegateTokenT(obj, method)) or
\* sig.InsertToken(index, new SignalTokenT(obj))
InsertTokenCall(sig, kind, obj, method, index) ==
  /\ CanCall
  /\ nextId \in Ids
  /\ sig \in alive /\ obj \in alive
  /\ \E d \in Reusable \cup {Null} :
       Commit(NoteConnect(ReuseBlock(
         InsertToken(NewToken(St, nextId, kind, obj, method),
                     sig, index, nextId),
         d, nextId)))
  /\ nextId' = nextId + 1
  /\ UNCHANGED <<alive, ub>>

\* sig.Disconnect(start_pos, counts)
Disconnect(sig, start_pos, counts) ==
  /\ CanCall
  /\ sig \in alive
  /\ first_token[sig] # Null
  /\ Commit(NoteRemoval(St, DisconnectOp(St, sig, start_pos, counts)))
  /\ UNCHANGED <<alive, nextId, ub>>

\* sig.Disconnect(obj, &T::method, start_pos, counts)
DisconnectMethod(sig, obj, method, start_pos, counts) ==
  /\ CanCall
  /\ sig \in alive /\ obj \in alive
  /\ first_token[sig] # Null
  /\ LET s1 == DisconnectMatchingOp(St, sig, MethodFilter(obj, method),
                                    start_pos, counts)
     IN  Commit(NoteRemoval(St, s1)) /\ ub' = Outcome(s1)
  /\ UNCHANGED <<alive, nextId>>

\* sig.Disconnect(other, start_pos, counts)
DisconnectSignal(sig, other, start_pos, counts) ==
  /\ CanCall
  /\ sig \in alive /\ other \in alive
  /\ first_token[sig] # Null
  /\ LET s1 == DisconnectMatchingOp(St, sig, SignalFilter(other),
                                    start_pos, counts)
     IN  Commit(NoteRemoval(St, s1)) /\ ub' = Outcome(s1)
  /\ UNCHANGED <<alive, nextId>>

\* sig.DisconnectAll(obj, &T::method)
DisconnectAllMethod(sig, obj, method) ==
  /\ CanCall
  /\ sig \in alive /\ obj \in alive
  /\ first_token[sig] # Null
  /\ LET s1 == DisconnectAllMatchingOp(St, sig, MethodFilter(obj, method))
     IN  Commit(NoteRemoval(St, s1)) /\ ub' = Outcome(s1)
  /\ UNCHANGED <<alive, nextId>>

\* sig.DisconnectAll(other)
DisconnectAllSignal(sig, other) ==
  /\ CanCall
  /\ sig \in alive /\ other \in alive
  /\ first_token[sig] # Null
  /\ LET s1 == DisconnectAllMatchingOp(St, sig, SignalFilter(other))
     IN  Commit(NoteRemoval(St, s1)) /\ ub' = Outcome(s1)
  /\ UNCHANGED <<alive, nextId>>

\* obj's own code calls UnbindAllSignalsTo(&T::method)
UnbindAllSignalsTo(obj, method) ==
  /\ CanCall
  /\ obj \in alive
  /\ first_binding[obj] # Null
  /\ Commit(NoteRemoval(St, UnbindAllSignalsToOp(St, obj, method)))
  /\ UNCHANGED <<alive, nextId, ub>>

\* sig.DisconnectAll()
DisconnectAll(sig) ==
  /\ CanCall
  /\ sig \in alive
  /\ first_token[sig] # Null
  /\ Commit(NoteRemoval(St, DisconnectAllOp(St, sig)))
  /\ UNCHANGED <<alive, nextId, ub>>

\* delete o (a receiver or a signal)
Destroy(o) ==
  /\ CanCall
  /\ o \in alive
  /\ Commit(NoteRemoval(St, DestroyOp(St, o)))
  /\ alive' = alive \ {o}
  /\ UNCHANGED <<nextId, ub>>

\* this->UnbindSignal(slot), called by the running callback on its receiver.
UnbindSignal ==
  /\ ub # "crash"
  /\ stack # <<>> /\ Top.pc = "cb"
  /\ Top.self \in alive
  /\ Top.token_ # Null /\ tok[Top.token_].live
  /\ tok[Top.token_].binding # Null
  /\ bnd[tok[Top.token_].binding].trackable = Top.self
  /\ Commit(NoteRemoval(St, UnbindSignalOp(St, Len(stack))))
  /\ UNCHANGED <<alive, nextId, ub>>

\* slot->binding_trackable(), called by the running callback, returns
\* token_->binding->trackable.  The read faults when token_ is null (the
\* callback has removed the last token of the walk) and when the Token has no
\* Binding: one attached through PushBackToken, PushFrontToken or
\* InsertToken, or a destroyed one, whose binding ~Token nulled.
BindingTrackableCall ==
  /\ ub # "crash"
  /\ stack # <<>> /\ Top.pc = "cb"
  /\ IF Top.token_ = Null THEN TRUE ELSE tok[Top.token_].binding = Null
  /\ ub' = "crash"
  /\ UNCHANGED <<tok, bnd, first_token, last_token, first_binding,
                 last_binding, stack, alive, nextId, dfree>>

\* sig.Emit(args...) is entered: Slot slot(first_token())
EmitBegin(sig) ==
  /\ CanCall
  /\ sig \in alive
  /\ Len(stack) < MaxDepth
  /\ stack' = Append(stack, NewSlot(sig))
  /\ UNCHANGED <<tok, bnd, first_token, last_token, first_binding,
                 last_binding, alive, nextId, dfree, ub>>

\* sig.Emit(args) of a signal with parameters is entered.
EmitBeginArgs(sig, a) ==
  /\ CanCall
  /\ sig \in alive
  /\ Len(stack) < MaxDepth
  /\ stack' = Append(stack, [NewSlot(sig) EXCEPT !.args = a])
  /\ UNCHANGED <<tok, bnd, first_token, last_token, first_binding,
                 last_binding, alive, nextId, dfree, ub>>

\* One pass of the loop head on a DelegateTokenT: the mark is parked and the
\* delegate is invoked; the callback is now running.
EmitInvokeDelegate ==
  /\ ub # "crash"
  /\ stack # <<>> /\ Top.pc = "loop"
  /\ Top.token_ # Null /\ tok[Top.token_].live
  /\ tok[Top.token_].kind = "delegate"
  /\ tok[Top.token_].obj \in alive
  /\ LET i == Len(stack)
         s1 == Delegated(Invoked(PushBackMark(St, i), i), i)
     IN  Commit([s1 EXCEPT !.stack[i].pc = "cb",
                           !.stack[i].self = tok[Top.token_].obj])
  /\ UNCHANGED <<alive, nextId, ub>>

\* One pass of the loop head on a SignalTokenT: the mark is parked and
\* Invoke enters signal_->Emit(args...).
EmitInvokeSignal ==
  /\ ub # "crash"
  /\ stack # <<>> /\ Top.pc = "loop"
  /\ Top.token_ # Null /\ tok[Top.token_].live
  /\ tok[Top.token_].kind = "signal"
  /\ tok[Top.token_].obj \in alive
  /\ Len(stack) < MaxDepth
  /\ LET i == Len(stack)
         s1 == Invoked(PushBackMark(St, i), i)
         s2 == [s1 EXCEPT !.stack[i].pc = "fwd"]
     IN  Commit([s2 EXCEPT !.stack = Append(s2.stack, SignalTokenInvoke(Top))])
  /\ UNCHANGED <<alive, nextId, ub>>

\* The callback returns to Emit, which runs the tail of the loop body.
CallbackReturn ==
  /\ ub # "crash"
  /\ stack # <<>> /\ Top.pc = "cb"
  /\ LET i == Len(stack)
         s1 == EmitAdvance(St, i)
     IN  Commit([s1 EXCEPT !.stack[i].pc = "loop", !.stack[i].self = NoObj])
  /\ UNCHANGED <<alive, nextId, ub>>

\* slot.token_ is null: Emit returns and its Slot is destroyed.  When the
\* caller is SignalTokenT::Invoke, the enclosing Emit runs the tail of its
\* loop body.
EmitReturn ==
  /\ ub # "crash"
  /\ stack # <<>> /\ Top.pc = "loop" /\ Top.token_ = Null
  /\ LET i == Len(stack)
         s1 == SlotDtor(St, i)
         s2 == [s1 EXCEPT !.stack = SubSeq(s1.stack, 1, i - 1)]
     IN  IF i > 1 /\ stack[i - 1].pc = "fwd"
           THEN Commit([EmitAdvance(Forwarded(s2, Top), i - 1)
                          EXCEPT !.stack[i - 1].pc = "loop"])
           ELSE Commit(s2)
  /\ UNCHANGED <<alive, nextId, ub>>

\* slot.token_ points at a destroyed Token and the loop head uses it.  Where
\* the allocator has left the freed block as it was, the memory still reads
\* as the Token it was (its links nulled by the destructor): the mark is
\* parked on its slot_mark_head and its delegate is invoked.
EmitInvokeFreed ==
  /\ ub # "crash"
  /\ stack # <<>> /\ Top.pc = "loop"
  /\ Top.token_ # Null /\ ~tok[Top.token_].live
  /\ tok[Top.token_].kind = "delegate"
  /\ LET i == Len(stack)
     IN  Commit([Delegated(Invoked(PushBackMark(St, i), i), i)
                   EXCEPT !.stack[i].pc = "cb",
                          !.stack[i].self = tok[Top.token_].obj])
  /\ ub' = "uaf"
  /\ UNCHANGED <<alive, nextId>>

\* slot.token_ points at a destroyed SignalTokenT and the loop head uses it:
\* where the freed memory still reads as the Token it was, the mark is parked
\* on it and Invoke enters Emit on the signal it forwarded to, destroyed or
\* not.
EmitInvokeFreedSignal ==
  /\ ub # "crash"
  /\ stack # <<>> /\ Top.pc = "loop"
  /\ Top.token_ # Null /\ ~tok[Top.token_].live
  /\ tok[Top.token_].kind = "signal"
  /\ Len(stack) < MaxDepth
  /\ LET i == Len(stack)
         s1 == Invoked(PushBackMark(St, i), i)
         s2 == [s1 EXCEPT !.stack[i].pc = "fwd"]
     IN  \E t \in FirstTokenRead(tok[Top.token_].obj) :
           Commit([s2 EXCEPT !.stack = Append(s2.stack,
                     [SignalTokenInvoke(Top) EXCEPT !.token_ = t])])
  /\ ub' = "uaf"
  /\ UNCHANGED <<alive, nextId>>

\* slot.token_ points at a destroyed Token and the loop head uses it: the
\* process faults.
EmitCrash ==
  /\ ub # "crash"
  /\ stack # <<>> /\ Top.pc = "loop"
  /\ Top.token_ # Null /\ ~tok[Top.token_].live
  /\ ub' = "crash"
  /\ UNCHANGED <<tok, bnd, first_token, last_token, first_binding,
                 last_binding, stack, alive, nextId, dfree>>

Next ==
  \/ \E sig \in Signals, obj \in Receivers, m \in Methods, index \in Indexes :
       Connect(sig, obj, m, index)
  \/ \E sig \in Signals, other \in Signals, index \in Indexes :
       ConnectSignal(sig, other, index)
  \/ \E sig \in Signals, start_pos \in Indexes, counts \in Counts :
       Disconnect(sig, start_pos, counts)
  \/ \E sig \in Signals : DisconnectAll(sig)
  \/ \E o \in Trackables : Destroy(o)
  \/ UnbindSignal
  \/ BindingTrackableCall
  \/ \E sig \in Signals : EmitBegin(sig)
  \/ EmitInvokeDelegate
  \/ EmitInvokeSignal
  \/ CallbackReturn
  \/ EmitReturn
  \/ EmitInvokeFreed
  \/ EmitInvokeFreedSignal
  \/ EmitCrash

\* One signal and two receivers, with Emit and everything callbacks may do.
InitFire ==
  /\ Init
  /\ alive = FireObjects

Spec == InitFire /\ [][Next]_vars

\* ============================================================== properties

\* C1: at every point of every Emit call the Slot's token_ is null or a
\* Token that has not been destroyed, whatever the callbacks do.
C1_CursorNeverDangles ==
  \A i \in 1..Len(stack) :
    stack[i].token_ = Null \/ tok[stack[i].token_].live

\* The tokens that follow t in its list, in order.
After(t) == TokensFrom(St, tok[t].next, Cardinality(Ids))

\* u is what t's next was when t was destroyed in this step: the first token
\* after t that this step had not destroyed before t, or null.
SuccessorAtDeletion(t, u) ==
  \E k \in 1..(Len(After(t)) + 1) :
    /\ u = IF k <= Len(After(t)) THEN After(t)[k] ELSE Null
    /\ \A j \in 1..(k - 1) : ~tok'[After(t)[j]].live
    /\ Cardinality({x \in Ids : tok[x].live /\ ~tok'[x].live}) = 1 => k = 1

\* C2: when a Token is destroyed, every Slot parked on it (mark on its
\* slot_mark_head) ends the step on the Token's successor at deletion time
\* (or null) with skip_ set; and an Emit loop whose Slot has skip_ set clears
\* the flag and does not advance the Slot when its callback returns.
C2_RedirectEveryParkedSlot ==
  [][ /\ \A t \in Ids :
           (tok[t].live /\ ~tok'[t].live) =>
             \A i \in Range(tok[t].slot_mark_head) :
               /\ i <= Len(stack')
               /\ stack'[i].skip_
               /\ SuccessorAtDeletion(t, stack'[i].token_)
      /\ \A i \in 1..Len(stack) :
           ( /\ stack[i].skip_
             /\ stack[i].pc \in {"cb", "fwd"}
             /\ i <= Len(stack')
             /\ stack'[i].pc = "loop" ) =>
             /\ stack'[i].token_ = stack[i].token_
             /\ ~stack'[i].skip_
    ]_vars

\* C2 witness: the outer and the inner Slot of a nested Emit on one signal
\* were parked on the same Token when it was destroyed; both were moved to
\* its successor, a live Token, and flagged.
C2_Witness ==
  /\ Len(stack) = 2
  /\ stack[1].sig = stack[2].sig
  /\ stack[1].skip_ /\ stack[2].skip_
  /\ stack[1].token_ = stack[2].token_
  /\ stack[1].token_ # Null
  /\ tok[stack[1].token_].live

\* SignalT::CountConnections(): the length of the walk from first_token_.
CountConnections(s, sig) == Len(TokList(s, sig))

\* Stack frame f's Emit call has left its loop and is about to return.
AtReturn(f) == f.pc = "loop" /\ f.token_ = Null

\* C3: an Emit call during which callbacks did nothing to the lists but
\* disconnect the very token being invoked has, when it returns, invoked
\* every token of the list it found at entry exactly once and in list order
\* (the successor of a removed token neither skipped nor repeated); after one
\* such self-disconnect CountConnections() is one less than at entry.
C3_SelfDisconnectKeepsWalk ==
  \A i \in 1..Len(stack) :
    (AtReturn(stack[i]) /\ stack[i].mut \in {"self1", "selfn"}) =>
      /\ stack[i].inv = stack[i].entry
      /\ stack[i].mut = "self1" =>
           CountConnections(St, stack[i].sig) = Len(stack[i].entry) - 1

\* C3 witness: three connections, the second disconnected itself when
\* invoked; the first and third ran once each and two connections remain.
C3_Witness ==
  /\ Len(stack) = 1
  /\ AtReturn(stack[1])
  /\ stack[1].mut = "self1"
  /\ Len(stack[1].entry) = 3
  /\ stack[1].inv = stack[1].entry
  /\ tok[stack[1].entry[1]].live
  /\ ~tok[stack[1].entry[2]].live
  /\ tok[stack[1].entry[3]].live
  /\ CountConnections(St, stack[1].sig) = 2

\* C4: once a receiver has been destroyed no Emit invokes a callback bound
\* to it: in every step in which an Emit enters a callback, the receiver the
\* callback is bound to is alive.
C4_NoCallbackOnDestroyedReceiver ==
  [][ \A i \in 1..Len(stack') :
        ( /\ stack'[i].pc = "cb"
          /\ IF i > Len(stack) THEN TRUE ELSE stack[i].pc # "cb" ) =>
          stack'[i].self \in alive'
    ]_vars

\* The state after the step, as a record.
StNext ==
  [tok |-> tok', bnd |-> bnd', first_token |-> first_token',
   last_token |-> last_token', first_binding |-> first_binding',
   last_binding |-> last_binding', stack |-> stack', dfree |-> dfree',
   ret |-> 0, fault |-> FALSE]

\* The trackable that owns the Binding paired with token t.
ReceiverOf(t) == bnd[tok[t].binding].trackable

\* The signal that owns the Token paired with binding b.
EmitterOf(b) == tok[bnd[b].token].trackable

\* C5: destroying a receiver r removes from every signal exactly the tokens
\* whose paired binding r owned: each signal's list afterwards is its list
\* before without those tokens, the others in their previous order; a signal
\* connected only to r has CountConnections() = 0.
C5_ReceiverDeathCascade ==
  [][ \A r \in Receivers :
        (r \in alive /\ alive' = alive \ {r}) =>
          \A g \in Signals :
            /\ TokList(StNext, g) =
                 SelectSeq(TokList(St, g), LAMBDA t : ReceiverOf(t) # r)
            /\ (\A t \in Range(TokList(St, g)) : ReceiverOf(t) = r) =>
                 CountConnections(StNext, g) = 0
    ]_vars

\* C5 witness: r1 has been destroyed while a signal held connections to r1
\* and to another trackable; the signal still holds a connection, none to r1.
C5_Witness ==
  /\ "R1" \notin alive
  /\ \E t \in Ids : ~tok[t].live /\ tok[t].obj = "R1"
  /\ \E g \in Signals : \E t \in Range(TokList(St, g)) :
       tok[t].live /\ tok[t].obj # "R1"

\* Trackable::CountSignalBindings(): the length of the walk from
\* first_binding_.
CountSignalBindings(s, o) == Len(BndList(s, o))

\* C6: destroying a signal g removes from every other trackable exactly the
\* bindings paired with g's tokens: each list afterwards is the list before
\* without those bindings, the others in their previous order; a receiver
\* connected only to g has CountSignalBindings() = 0.
C6_EmitterDeathCascade ==
  [][ \A g \in Signals :
        (g \in alive /\ alive' = alive \ {g}) =>
          \A o \in Trackables \ {g} :
            /\ BndList(StNext, o) =
                 SelectSeq(BndList(St, o), LAMBDA b : EmitterOf(b) # g)
            /\ (\A b \in Range(BndList(St, o)) : EmitterOf(b) = g) =>
                 CountSignalBindings(StNext, o) = 0
    ]_vars

\* C6 witness: n1 has been destroyed while r1 was connected to n1 and to
\* another signal; r1 keeps a binding.
C6_Witness ==
  /\ "N1" \notin alive
  /\ \E t \in Ids : ~tok[t].live /\ tok[t].obj = "R1"
  /\ CountSignalBindings(St, "R1") > 0

\* C7: each live Binding references exactly one live Token and that Token
\* references it back, and each live Token references exactly one live
\* Binding that references it back; no pair shares a partner.
C7_PairSymmetry ==
  /\ \A t \in Ids : tok[t].live =>
       /\ tok[t].binding # Null
       /\ bnd[tok[t].binding].live
       /\ bnd[tok[t].binding].token = t
  /\ \A b \in Ids : bnd[b].live =>
       /\ bnd[b].token # Null
       /\ tok[bnd[b].token].live
       /\ tok[bnd[b].token].binding = b
  /\ \A t, u \in Ids :
       (tok[t].live /\ tok[u].live /\ tok[t].binding = tok[u].binding) => t = u
  /\ \A b, c \in Ids :
       (bnd[b].live /\ bnd[c].live /\ bnd[b].token = bnd[c].token) => b = c

\* C7 witness: inside an Emit, pairs have been connected, a receiver and
\* its pairs destroyed, and a live pair remains.
C7_Witness ==
  /\ \E t \in Ids : tok[t].live /\ bnd[tok[t].binding].token = t
  /\ \E t \in Ids : ~tok[t].live /\ tok[t].kind # "none"
  /\ "R1" \notin alive
  /\ stack # <<>>

\* C8: for every receiver o and signal g, as many bindings of o's list are
\* paired with a token of g's list as tokens of g's list are paired with a
\* binding of o's list; so CountSignalBindings() of o is the number of
\* tokens, over all signals, bound to o.
C8_ConnectionBijection ==
  /\ \A o \in Trackables : \A g \in Signals :
       Cardinality({k \in 1..Len(BndList(St, o)) :
                      bnd[BndList(St, o)[k]].token \in Range(TokList(St, g))})
         = Cardinality({k \in 1..Len(TokList(St, g)) :
                      tok[TokList(St, g)[k]].binding \in Range(BndList(St, o))})
  /\ \A o \in Trackables :
       CountSignalBindings(St, o) =
         Cardinality({t \in Ids : \E g \in Signals :
                        t \in Range(TokList(St, g)) /\ ReceiverOf(t) = o})

\* C8 witness: a receiver is connected to two signals, twice to one of them.
C8_Witness ==
  /\ CountSignalBindings(St, "R1") = 3
  /\ CountConnections(St, "N1") = 2
  /\ CountConnections(St, "N2") = 1

\* q has no element twice.
NoRepeat(q) == \A j, k \in 1..Len(q) : q[j] = q[k] => j = k

\* C9: an Emit call during which callbacks changed no list has, when it
\* returns, invoked every token of the signal exactly once in head-to-tail
\* order; and Connect with the default index -1 puts the new token last,
\* Connect with index 0 puts it first, so that Connect(a); Connect(b);
\* Connect(c) is invoked a, b, c and Connect(b, 0) after Connect(a) is invoked
\* b, a.
C9_OrderPreserved ==
  /\ \A i \in 1..Len(stack) :
       (AtReturn(stack[i]) /\ stack[i].mut = "none") =>
         /\ stack[i].inv = stack[i].entry
         /\ stack[i].inv = TokList(St, stack[i].sig)
         /\ NoRepeat(stack[i].inv)
  /\ nextId <= MaxNodes =>
       \A g \in Signals \cap alive : \A o \in Receivers \cap alive :
         /\ TokList(ConnectOp(St, g, nextId, "delegate", o, "m1", 0 - 1), g)
              = Append(TokList(St, g), nextId)
         /\ TokList(ConnectOp(St, g, nextId, "delegate", o, "m1", 0), g)
              = <<nextId>> \o TokList(St, g)

\* C9 witness: three connections appended one after the other were invoked
\* in that order by an Emit whose callbacks changed nothing.
C9_Witness ==
  /\ Len(stack) = 1
  /\ AtReturn(stack[1])
  /\ stack[1].mut = "none"
  /\ stack[1].inv = <<1, 2, 3>>
  /\ TokList(St, stack[1].sig) = <<1, 2, 3>>

\* C10: while an Emit is running, callbacks may call Emit again and may
\* disconnect tokens one at a time, provided the token is not the one an
\* enclosing Emit stands on and the disconnecting callback's own token is
\* not already gone.  Then no Slot, inner or outer, points at a destroyed
\* Token, a token is live when it is invoked, and when an Emit returns every
\* token still connected has been invoked by it exactly once, in list order,
\* no token twice.
C10_RecursiveEmitWithRemoval ==
  \A i \in 1..Len(stack) :
    stack[i].mut \in {"none", "self1", "selfn", "del"} =>
      /\ stack[i].token_ = Null \/ tok[stack[i].token_].live
      /\ (stack[i].pc \in {"cb", "fwd"} /\ ~stack[i].skip_) =>
           /\ stack[i].token_ # Null
           /\ stack[i].inv # <<>>
           /\ stack[i].inv[Len(stack[i].inv)] = stack[i].token_
      /\ NoRepeat(stack[i].inv)
      /\ AtReturn(stack[i]) =>
           SelectSeq(stack[i].inv, LAMBDA t : tok[t].live)
             = TokList(St, stack[i].sig)

\* C10 witness: a callback of the outer Emit called Emit on the same signal
\* again; during the inner Emit a token ahead of the outer Slot was
\* disconnected; the inner Emit is returning after invoking the tokens that
\* stayed, and the outer Slot still stands on its live token.
C10_Witness ==
  /\ Len(stack) = 2
  /\ stack[1].sig = stack[2].sig
  /\ stack[1].pc = "cb" /\ ~stack[1].skip_
  /\ tok[stack[1].token_].live
  /\ stack[1].mut = "del"
  /\ stack[2].mut \in {"self1", "del"}
  /\ AtReturn(stack[2])
  /\ Len(stack[2].inv) >= 2
  /\ \E t \in Ids : ~tok[t].live /\ tok[t].kind # "none"

\* ------------------------------------------------------- chained signals
\* Two signals and one receiver; signals are connected to each other and to
\* the receiver and emitted with arguments.  Objects are destroyed between
\* Emit calls.
InitChain ==
  /\ Init
  /\ alive = ChainObjects

NextChain ==
  \/ \E sig \in Signals, m \in Methods, index \in {0 - 1, 0} :
       Connect(sig, "R1", m, index)
  \/ \E sig \in Signals, other \in Signals, index \in {0 - 1, 0} :
       ConnectSignal(sig, other, index)
  \/ \E o \in ChainObjects : stack = <<>> /\ Destroy(o)
  \/ \E sig \in Signals, a \in Args : EmitBeginArgs(sig, a)
  \/ EmitInvokeDelegate
  \/ EmitInvokeSignal
  \/ CallbackReturn
  \/ EmitReturn

SpecChain == InitChain /\ [][NextChain]_vars

\* The delegate calls sig.Emit(a) makes when no callback changes a list,
\* walking from token t: a DelegateTokenT calls its delegate, a SignalTokenT
\* emits its signal, to at most depth nested Emit calls.
RECURSIVE CallsFrom(_, _, _, _)
CallsFrom(t, a, depth, fuel) ==
  IF t = Null \/ depth = 0 \/ fuel = 0 THEN <<>>
  ELSE (IF tok[t].kind = "delegate"
          THEN << <<tok[t].obj, tok[t].method, a>> >>
          ELSE CallsFrom(first_token[tok[t].obj], a, depth - 1, Cardinality(Ids)))
       \o CallsFrom(tok[t].next, a, depth, fuel - 1)

\* C11: an Emit(args) during which no list changes has, when it returns,
\* called for each DelegateTokenT of its list the delegate once with args
\* and for each SignalTokenT emitted the token's signal once with args, in
\* list order, all before it returns; so after N1.Connect(N2) and
\* N2.Connect(r, m) one N1.Emit(args) calls r.m(args) exactly once.
C11_ChainedEmit ==
  \A i \in 1..Len(stack) :
    (AtReturn(stack[i]) /\ stack[i].mut = "none") =>
      stack[i].log = CallsFrom(first_token[stack[i].sig], stack[i].args,
                               MaxDepth - i + 1, Cardinality(Ids))

\* C11 witness: N1 holds one connection, to N2, and N2 one, to r1.m1;
\* N1.Emit("a2") is about to return and has called r1.m1("a2") once.
C11_Witness ==
  /\ Len(stack) = 1
  /\ stack[1].sig = "N1" /\ stack[1].args = "a2"
  /\ AtReturn(stack[1]) /\ stack[1].mut = "none"
  /\ CountConnections(St, "N1") = 1
  /\ tok[first_token["N1"]].kind = "signal"
  /\ tok[first_token["N1"]].obj = "N2"
  /\ CountConnections(St, "N2") = 1
  /\ tok[first_token["N2"]].kind = "delegate"
  /\ stack[1].log = << <<"R1", "m1", "a2">> >>

\* A count that leaves out the dynamic_cast and the Equal test.
CountConnectionsToTrackable(s, sig, flt) ==
  Len(SelectSeq(TokList(s, sig),
                LAMBDA t : s.bnd[s.tok[t].binding].trackable = flt.obj))

\* SignalT::CountConnections(obj, method) and CountConnections(other): the
\* tokens of the list that match.
CountConnectionsMatching(s, sig, flt) ==
  Len(SelectSeq(TokList(s, sig), LAMBDA t : Match(s, t, flt)))

\* SignalT::IsConnectedTo(obj, method) and IsConnectedTo(other): some token
\* of the list matches.
IsConnectedToMatching(s, sig, flt) ==
  \E t \in Range(TokList(s, sig)) : Match(s, t, flt)

\* C12: sig.Connect(other) appends the new Binding to other's binding list;
\* destroying a signal o leaves no other signal with a connection to o
\* (IsConnectedTo(o) is false and CountConnections(o) is 0); and an Emit
\* entered after that never emits a destroyed signal again.
C12_ForwardedSignalIsReceiver ==
  [][ /\ (nextId' = nextId + 1 /\ tok'[nextId].kind = "signal") =>
           /\ BndList(StNext, tok'[nextId].obj)
                = Append(BndList(St, tok'[nextId].obj), nextId)
           /\ bnd'[nextId].token = nextId
           /\ tok'[nextId].trackable \in Signals
      /\ \A o \in Signals :
           (o \in alive /\ o \notin alive') =>
             \A g \in Signals \ {o} :
               /\ ~IsConnectedToMatching(StNext, g, SignalFilter(o))
               /\ CountConnectionsMatching(StNext, g, SignalFilter(o)) = 0
      /\ \A i \in 1..Len(stack') : stack'[i].sig \in alive'
    ]_vars

\* C12 witness: N1 was connected to N2 and to r1; N2 has been destroyed and
\* an N1.Emit entered afterwards has called r1 and is about to return.
C12_Witness ==
  /\ "N2" \notin alive
  /\ \E t \in Ids : ~tok[t].live /\ tok[t].kind = "signal" /\ tok[t].obj = "N2"
  /\ Len(stack) = 1
  /\ stack[1].sig = "N1"
  /\ AtReturn(stack[1])
  /\ stack[1].mut = "none"
  /\ Len(stack[1].log) = 1
  /\ ~IsConnectedToMatching(St, "N1", SignalFilter("N2"))

\* ------------------------------------------------------- one signal's list
\* The list of N1, holding up to MaxList connections to r1.m1, connected and
\* disconnected at every position from outside any Emit.
InitList ==
  /\ tok = [i \in 1..MaxList |-> NoToken]
  /\ bnd = [i \in 1..MaxList |-> NoBinding]
  /\ first_token = [g \in Signals |-> Null]
  /\ last_token = [g \in Signals |-> Null]
  /\ first_binding = [o \in Trackables |-> Null]
  /\ last_binding = [o \in Trackables |-> Null]
  /\ stack = <<>>
  /\ alive = ListObjects
  /\ nextId = 1
  /\ dfree = FALSE
  /\ ub = "none"

NextList ==
  \/ \E index \in Indexes : Connect("N1", "R1", "m1", index)
  \/ \E start_pos \in Indexes, counts \in Counts :
       Disconnect("N1", start_pos, counts)
  \/ DisconnectAll("N1")

SpecList == InitList /\ [][NextList]_vars

Min(a, b) == IF a <= b THEN a ELSE b
Max(a, b) == IF a >= b THEN a ELSE b

\* q with x put in so that pos elements precede it.
InsertAt(q, pos, x) == SubSeq(q, 1, pos) \o <<x>> \o SubSeq(q, pos + 1, Len(q))

\* C13: Connect with index on a list of n tokens puts the new token at
\* position min(index, n) from the head when index >= 0 and at position
\* max(n + 1 + index, 0) when index < 0; the tokens already connected keep
\* their order.
C13_ConnectIndex ==
  nextId \in Ids =>
    \A index \in ListIndexes :
      LET q == TokList(St, "N1")
          n == Len(q)
          pos == IF index >= 0 THEN Min(index, n) ELSE Max(n + 1 + index, 0)
      IN  TokList(ConnectOp(St, "N1", nextId, "delegate", "R1", "m1", index), "N1")
            = InsertAt(q, pos, nextId)

\* C13 witness: the fourth connection was put between the second and the
\* third of three (index 2, or -2), and a fifth can still be made.
C13_Witness ==
  /\ TokList(St, "N1") = <<1, 2, 4, 3>>
  /\ nextId \in Ids

\* C14: whatever index Connect is given, and whether it connects a receiver's
\* method or another signal, the new Binding becomes the last of the
\* receiver's binding list and no other binding list changes.
C14_BindingAlwaysAppended ==
  nextId \in Ids =>
    \A g \in Signals \cap alive : \A o \in Trackables \cap alive :
      \A index \in Indexes :
        LET s1 == IF o \in Signals
                    THEN ConnectOp(St, g, nextId, "signal", o, "emit", index)
                    ELSE ConnectOp(St, g, nextId, "delegate", o, "m1", index)
        IN  /\ BndList(s1, o) = Append(BndList(St, o), nextId)
            /\ \A p \in Trackables \ {o} : BndList(s1, p) = BndList(St, p)

\* C14 witness: r1 was connected to N1 twice, the second time with index 0:
\* the second token is first in N1's list, the second binding last in r1's.
C14_Witness ==
  /\ TokList(St, "N1") = <<2, 1>>
  /\ BndList(St, "R1") = <<1, 2>>
  /\ nextId \in Ids

\* The positions (0 = head) of a list of n tokens that Disconnect(start_pos,
\* counts) with counts >= 1 is to remove: counts positions from start_pos on
\* toward the tail, or from n + start_pos on toward the head, as far as they
\* exist.
RangePositions(n, start_pos, counts) ==
  IF start_pos >= 0
    THEN {p \in 0..(n - 1) : start_pos <= p /\ p <= start_pos + counts - 1}
    ELSE {p \in 0..(n - 1) :
            n + start_pos - counts + 1 <= p /\ p <= n + start_pos}

\* q without the elements at the positions (0 = head) in P.
WithoutPositions(q, P) ==
  SelectSeq(q, LAMBDA t : \A p \in P : q[p + 1] # t)

\* C15: on a list of n tokens Disconnect(start_pos, counts) with counts >= 1
\* removes exactly the tokens at the positions start_pos .. start_pos +
\* counts - 1 that exist when start_pos >= 0, and at the positions
\* n + start_pos, n + start_pos - 1, ... (counts of them, as far as they
\* exist) when start_pos < 0; the other tokens keep their order and the
\* return value is the number of tokens removed.
C15_DisconnectRange ==
  \A start_pos \in ListIndexes : \A counts \in 1..MaxList :
    LET q == TokList(St, "N1")
        P == RangePositions(Len(q), start_pos, counts)
        s1 == DisconnectOp(St, "N1", start_pos, counts)
    IN  /\ TokList(s1, "N1") = WithoutPositions(q, P)
        /\ s1.ret = Cardinality(P)
        /\ \A t \in Range(q) : s1.tok[t].live <=> t \in Range(TokList(s1, "N1"))

\* C15 witness: on the list x0..x4 Disconnect(1, 2) removes x1, x2 and
\* Disconnect(-1, 2) removes x4, x3; both return 2.
C15_Witness ==
  /\ TokList(St, "N1") = <<1, 2, 3, 4, 5>>
  /\ TokList(DisconnectOp(St, "N1", 1, 2), "N1") = <<1, 4, 5>>
  /\ DisconnectOp(St, "N1", 1, 2).ret = 2
  /\ TokList(DisconnectOp(St, "N1", 0 - 1, 2), "N1") = <<1, 2, 3>>
  /\ DisconnectOp(St, "N1", 0 - 1, 2).ret = 2

\* Every filter a filtered Disconnect can be called with.
Filters ==
  {MethodFilter(o, m) : o \in Receivers, m \in FilterMethods}
    \cup {SignalFilter(o) : o \in Signals}

\* C16: for every start_pos and every counts >= 0, counts = 0 included, each
\* Disconnect overload removes at most counts connections and returns the
\* number removed, the decrease of CountConnections().
C16_DisconnectAtMostCounts ==
  \A g \in Signals \cap alive : \A start_pos \in NodeIndexes :
    \A counts \in 0..MaxNodes :
      /\ LET s1 == DisconnectOp(St, g, start_pos, counts)
         IN  /\ s1.ret <= counts
             /\ s1.ret = CountConnections(St, g) - CountConnections(s1, g)
      /\ \A flt \in Filters :
           LET s1 == DisconnectMatchingOp(St, g, flt, start_pos, counts)
           IN  /\ s1.ret <= counts
               /\ s1.ret = CountConnections(St, g) - CountConnections(s1, g)

\* C17: Disconnect() with the default start_pos and counts removes every
\* connection of the signal.
C17_DisconnectDefaultRemovesAll ==
  \A g \in Signals \cap alive :
    CountConnections(DisconnectOp(St, g, DefaultStartPos, DefaultCounts), g) = 0

\* The positions (0 = head) of the tokens of q that match flt.
MatchingPositions(q, flt) ==
  {p \in 0..(Len(q) - 1) : Match(St, q[p + 1], flt)}

\* The largest element of a non-empty set of numbers.
Largest(P) == CHOOSE p \in P : \A r \in P : r <= p

\* C18: with the default start_pos and counts, Disconnect(obj, method) and
\* Disconnect(other) on a list that holds a matching token remove exactly
\* one token, the matching one nearest the tail, and return 1.
C18_DisconnectDefaultRemovesLastMatch ==
  \A g \in Signals \cap alive : \A flt \in Filters :
    LET q == TokList(St, g)
        M == MatchingPositions(q, flt)
        s1 == DisconnectMatchingOp(St, g, flt, DefaultStartPos, DefaultCounts)
    IN  M # {} =>
          /\ s1.ret = 1
          /\ TokList(s1, g) = WithoutPositions(q, {Largest(M)})
          /\ \A h \in Signals \ {g} : TokList(s1, h) = TokList(St, h)

\* C18 witness: N1 is connected to r1.m1, r1.m1 and r2.m1 in this order;
\* N1.Disconnect(r1, m1) removes the second connection and returns 1.
C18_Witness ==
  /\ TokList(St, "N1") = <<1, 2, 3>>
  /\ tok[1].obj = "R1" /\ tok[2].obj = "R1" /\ tok[3].obj = "R2"
  /\ LET s1 == DisconnectMatchingOp(St, "N1", MethodFilter("R1", "m1"),
                                    DefaultStartPos, DefaultCounts)
     IN  TokList(s1, "N1") = <<1, 3>> /\ s1.ret = 1

\* C19: Disconnect(start_pos, counts) with counts negative or at least the
\* number of tokens removes every token from start_pos on in the scan
\* direction and returns their number; with the default start_pos it leaves
\* what DisconnectAll() leaves and returns the former number of tokens.
C19_DisconnectNegativeCountsIsAll ==
  \A start_pos \in ListIndexes : \A counts \in (0 - 2)..(MaxList + 1) :
    LET q == TokList(St, "N1")
        n == Len(q)
        P == IF start_pos >= 0
               THEN {p \in 0..(n - 1) : p >= start_pos}
               ELSE {p \in 0..(n - 1) : p <= n + start_pos}
        s1 == DisconnectOp(St, "N1", start_pos, counts)
    IN  (counts < 0 \/ counts >= n) =>
          /\ TokList(s1, "N1") = WithoutPositions(q, P)
          /\ s1.ret = Cardinality(P)
          /\ start_pos = DefaultStartPos =>
                /\ s1.ret = n
                /\ [s1 EXCEPT !.ret = 0] = [DisconnectAllOp(St, "N1") EXCEPT !.ret = 0]

\* C19 witness: on three tokens Disconnect(-1, -1) removes all three and
\* returns 3, Disconnect(1, -1) leaves the first.
C19_Witness ==
  /\ TokList(St, "N1") = <<1, 2, 3>>
  /\ TokList(DisconnectOp(St, "N1", DefaultStartPos, 0 - 1), "N1") = <<>>
  /\ DisconnectOp(St, "N1", DefaultStartPos, 0 - 1).ret = 3
  /\ TokList(DisconnectOp(St, "N1", 1, 0 - 1), "N1") = <<1>>

\* Signal g holds a connection made by Connect(obj, method), or by
\* Connect(other), for the obj and method, or the other, that flt names.
Connected(g, flt) ==
  \E t \in Range(TokList(St, g)) :
    /\ tok[t].kind = flt.kind
    /\ tok[t].obj = flt.obj
    /\ tok[t].method = flt.method

\* C20: a filtered Disconnect for a receiver and method, or a signal, that
\* the list holds no connection to, and any Disconnect whose start_pos is
\* past the tail (start_pos >= n) or before the head (start_pos < -n),
\* returns 0 and changes nothing: no token list, no binding list, no node;
\* no destructor runs twice.
C20_DisconnectNothingIsNoOp ==
  \A g \in Signals \cap alive : \A start_pos \in NodeIndexes :
    \A counts \in Counts :
      LET n == CountConnections(St, g)
          beyond == start_pos >= n \/ start_pos < 0 - n
      IN  /\ beyond => DisconnectOp(St, g, start_pos, counts) = St
          /\ \A flt \in Filters :
               (beyond \/ ~Connected(g, flt)) =>
                 DisconnectMatchingOp(St, g, flt, start_pos, counts) = St

\* C20 witness: N1 is connected to r1.m1 and to other objects but not to
\* r1.m2; N1.Disconnect(r1, m2) changes nothing, and neither does
\* N1.Disconnect(3, 1) on N1's three tokens.
C20_Witness ==
  /\ CountConnections(St, "N1") = 3
  /\ Connected("N1", MethodFilter("R1", "m1"))
  /\ Connected("N1", SignalFilter("N2"))
  /\ ~Connected("N1", MethodFilter("R1", "m2"))
  /\ DisconnectMatchingOp(St, "N1", MethodFilter("R1", "m2"),
                          DefaultStartPos, DefaultCounts) = St
  /\ DisconnectOp(St, "N1", 3, 1) = St

\* A lockstep walk that looks at the tokens only.
RECURSIVE LockstepTokensOnly(_, _, _, _, _)
LockstepTokensOnly(s, sig, obj, token, binding) ==
  IF token = Null \/ binding = Null THEN FALSE
  ELSE IF s.bnd[s.tok[token].binding].trackable = obj THEN TRUE
  ELSE LockstepTokensOnly(s, sig, obj, s.tok[token].next, s.bnd[binding].next)

\* The loop of SignalT::IsConnectedTo(const Trackable *obj): token and
\* binding advance together until either is null.
RECURSIVE Lockstep(_, _, _, _, _)
Lockstep(s, sig, obj, token, binding) ==
  IF token = Null \/ binding = Null THEN FALSE
  ELSE IF s.bnd[s.tok[token].binding].trackable = obj THEN TRUE
  ELSE IF s.tok[s.bnd[binding].token].trackable = sig THEN TRUE
  ELSE Lockstep(s, sig, obj, s.tok[token].next, s.bnd[binding].next)

\* SignalT::IsConnectedTo(const Trackable *obj).
IsConnectedToTrackable(s, sig, obj) ==
  Lockstep(s, sig, obj, s.first_token[sig], s.first_binding[obj])

\* C21: IsConnectedTo(trackable) is true exactly when some token of the
\* signal's list is paired with a binding of the trackable's list, whatever
\* the lengths of the two lists and the places of the pair in them.
C21_IsConnectedToTrackable ==
  \A g \in Signals \cap alive : \A o \in Trackables \cap alive :
    IsConnectedToTrackable(St, g, o) <=>
      \E t \in Range(TokList(St, g)) : tok[t].binding \in Range(BndList(St, o))

\* C21 witness: N1's only connection to r1 is the last of N1's two tokens
\* and the last of r1's two bindings, and IsConnectedTo(r1) finds it; N2
\* has a token and a binding but no connection to itself, and
\* IsConnectedTo(N2) on N2 is false.
C21_Witness ==
  /\ CountConnections(St, "N1") = 2
  /\ CountSignalBindings(St, "R1") = 2
  /\ tok[last_token["N1"]].binding = last_binding["R1"]
  /\ bnd[tok[first_token["N1"]].binding].trackable # "R1"
  /\ IsConnectedToTrackable(St, "N1", "R1")
  /\ CountConnections(St, "N2") = 1
  /\ CountSignalBindings(St, "N2") = 1
  /\ ~IsConnectedToTrackable(St, "N2", "N2")

\* ------------------------------------------- receivers with two methods
\* Two signals and two receivers with two slot methods each; connections
\* are made and removed by receiver, method and signal from outside any Emit.
InitMethods ==
  /\ Init
  /\ alive = Trackables

NextMethods ==
  \/ \E sig \in Signals, obj \in Receivers, m \in FilterMethods, index \in Indexes :
       Connect(sig, obj, m, index)
  \/ \E sig \in Signals, other \in Signals, index \in Indexes :
       ConnectSignal(sig, other, index)
  \/ \E sig \in Signals, obj \in Receivers, m \in FilterMethods,
          start_pos \in FilterStarts, counts \in FilterCounts :
       DisconnectMethod(sig, obj, m, start_pos, counts)
  \/ \E sig \in Signals, other \in Signals,
          start_pos \in FilterStarts, counts \in FilterCounts :
       DisconnectSignal(sig, other, start_pos, counts)
  \/ \E sig \in Signals, obj \in Receivers, m \in FilterMethods :
       DisconnectAllMethod(sig, obj, m)
  \/ \E sig \in Signals, other \in Signals : DisconnectAllSignal(sig, other)
  \/ \E obj \in Receivers, m \in FilterMethods : UnbindAllSignalsTo(obj, m)

SpecMethods == InitMethods /\ [][NextMethods]_vars

\* Trackable::CountSignalBindings(method): the bindings of the list whose
\* token matches.
CountSignalBindingsTo(s, obj, method) ==
  Len(SelectSeq(BndList(s, obj), LAMBDA b : MatchBinding(s, b, obj, method)))

\* Token t was connected by Connect(obj, method).
DelegateTo(t, obj, method) ==
  tok[t].kind = "delegate" /\ tok[t].obj = obj /\ tok[t].method = method

\* C22: UnbindAllSignalsTo(method) on a receiver leaves it with
\* CountSignalBindings(method) = 0; its binding list is the former list
\* without the bindings of connections to that method, every signal's token
\* list is the former list without the tokens of those connections, each in
\* the former order, and no other binding list changes.
C22_UnbindAllSignalsToMethod ==
  \A o \in Receivers : \A m \in FilterMethods :
    LET s1 == UnbindAllSignalsToOp(St, o, m)
    IN  /\ CountSignalBindingsTo(s1, o, m) = 0
        /\ BndList(s1, o) =
             SelectSeq(BndList(St, o), LAMBDA b : ~DelegateTo(bnd[b].token, o, m))
        /\ \A p \in Trackables \ {o} : BndList(s1, p) = BndList(St, p)
        /\ \A g \in Signals :
             TokList(s1, g) =
               SelectSeq(TokList(St, g), LAMBDA t : ~DelegateTo(t, o, m))
        /\ ~s1.dfree

\* C22 witness: r1 is connected by m1, m2 and m1 in this order, to both
\* signals; UnbindAllSignalsTo(m1) leaves the connection to m2.
C22_Witness ==
  /\ BndList(St, "R1") = <<1, 2, 3>>
  /\ tok[1].method = "m1" /\ tok[2].method = "m2" /\ tok[3].method = "m1"
  /\ tok[1].trackable # tok[3].trackable
  /\ BndList(UnbindAllSignalsToOp(St, "R1", "m1"), "R1") = <<2>>
  /\ CountSignalBindingsTo(St, "R1", "m1") = 2

\* C23: a Token and its Binding are destroyed together, whichever destructor
\* runs first, and no destructor ever runs on a node already destroyed: the
\* pair reference is nulled on both sides before the partner is deleted, so
\* a destroyed node references no partner.
C23_PairFreedOnce ==
  /\ ~dfree
  /\ \A t \in Ids :
       (tok[t].kind # "none" /\ ~tok[t].live) =>
         /\ tok[t].binding = Null
         /\ \A b \in Ids : bnd[b].token # t
  /\ \A b \in Ids :
       (bnd[b].trackable = NoObj /\ ~bnd[b].live) =>
         /\ bnd[b].token = Null
         /\ \A t \in Ids : tok[t].binding # b
  /\ \A t \in Ids :
       tok[t].live => (tok[t].binding # Null /\ bnd[tok[t].binding].live)
  /\ \A b \in Ids :
       bnd[b].live => (bnd[b].token # Null /\ tok[bnd[b].token].live)

\* C23 witness: inside an Emit a pair of r1, which is alive, has been
\* destroyed (by a disconnect, from the token side), r2 has been destroyed
\* and a pair of r2 with it, and a third pair is live.
C23_Witness ==
  /\ stack # <<>>
  /\ "R2" \notin alive /\ "R1" \in alive
  /\ \E t \in Ids : ~tok[t].live /\ tok[t].obj = "R2"
  /\ \E t \in Ids : ~tok[t].live /\ tok[t].obj = "R1"
  /\ \E t \in Ids : tok[t].live

\* The tokens reached from t following previous, t first.
RECURSIVE TokensBack(_, _)
TokensBack(t, fuel) ==
  IF t = Null \/ fuel = 0 THEN <<>>
  ELSE <<t>> \o TokensBack(tok[t].previous, fuel - 1)

\* The bindings reached from b following previous, b first.
RECURSIVE BindingsBack(_, _)
BindingsBack(b, fuel) ==
  IF b = Null \/ fuel = 0 THEN <<>>
  ELSE <<b>> \o BindingsBack(bnd[b].previous, fuel - 1)

Reverse(q) == [k \in 1..Len(q) |-> q[Len(q) + 1 - k]]

\* C24: after every operation each live signal's first_token_/last_token_
\* and each live trackable's first_binding_/last_binding_ delimit a
\* well-formed doubly-linked list of live nodes: the walk from the head by
\* next and the walk from the tail by previous visit the same nodes in
\* opposite orders, no node twice, head and tail are null together, every
\* node of a list has that list's owner as its trackable, every live node
\* is in its owner's list, and no link of a live node or of an owner leads
\* to a destroyed node.
C24_ListsWellFormed ==
  /\ \A g \in Signals \cap alive :
       LET q == TokList(St, g)
       IN  /\ NoRepeat(q)
           /\ TokensBack(last_token[g], Cardinality(Ids)) = Reverse(q)
           /\ (first_token[g] = Null) <=> (last_token[g] = Null)
           /\ \A k \in 1..Len(q) : tok[q[k]].live /\ tok[q[k]].trackable = g
           /\ \A t \in Ids : (tok[t].live /\ tok[t].trackable = g) => t \in Range(q)
  /\ \A o \in Trackables \cap alive :
       LET q == BndList(St, o)
       IN  /\ NoRepeat(q)
           /\ BindingsBack(last_binding[o], Cardinality(Ids)) = Reverse(q)
           /\ (first_binding[o] = Null) <=> (last_binding[o] = Null)
           /\ \A k \in 1..Len(q) : bnd[q[k]].live /\ bnd[q[k]].trackable = o
           /\ \A b \in Ids : (bnd[b].live /\ bnd[b].trackable = o) => b \in Range(q)
  /\ \A t \in Ids : tok[t].live =>
       /\ tok[t].trackable \in Signals \cap alive
       /\ tok[t].previous # Null => tok[tok[t].previous].live
       /\ tok[t].next # Null => tok[tok[t].next].live
       /\ tok[t].binding # Null => bnd[tok[t].binding].live
  /\ \A b \in Ids : bnd[b].live =>
       /\ bnd[b].trackable \in alive
       /\ bnd[b].previous # Null => bnd[bnd[b].previous].live
       /\ bnd[b].next # Null => bnd[bnd[b].next].live
       /\ bnd[b].token # Null => tok[bnd[b].token].live

\* C24 witness: r1 held the first and the last of N1's three tokens and has
\* been destroyed inside an Emit; N1 is left with the middle token as its
\* first and last.
C24_Witness ==
  /\ stack # <<>>
  /\ "R1" \notin alive
  /\ ~tok[1].live /\ tok[1].obj = "R1"
  /\ ~tok[3].live /\ tok[3].obj = "R1"
  /\ tok[2].live /\ tok[2].obj = "R2"
  /\ first_token["N1"] = 2 /\ last_token["N1"] = 2

\* C25: during an Emit whose callbacks disconnect tokens one at a time, none
\* of them the token an enclosing Emit stands on and none after the
\* callback's own token is gone, every token the Emit invokes is live and
\* has not been invoked by it before, so a token disconnected ahead of the
\* Slot (its immediate successor included) is not invoked; and when the Emit
\* returns the tokens still connected are exactly the invoked tokens that
\* are still live, in the order they were invoked, whether the disconnected
\* tokens were ahead of the Slot or behind it.
C25_DisconnectOtherDuringEmit ==
  [][ \A i \in 1..Len(stack') :
        stack'[i].mut = "del" =>
          /\ ( /\ i <= Len(stack)
               /\ Len(stack'[i].inv) = Len(stack[i].inv) + 1 ) =>
               /\ tok[stack'[i].inv[Len(stack'[i].inv)]].live
               /\ stack'[i].inv[Len(stack'[i].inv)] \notin Range(stack[i].inv)
               /\ stack'[i].inv[Len(stack'[i].inv)] \in Range(TokList(St, stack[i].sig))
          /\ AtReturn(stack'[i]) =>
               SelectSeq(stack'[i].inv, LAMBDA t : tok'[t].live)
                 = TokList(StNext, stack'[i].sig)
    ]_vars

\* C25 witness: of three tokens the second was disconnected while the
\* first's callback ran, before the Emit reached it; the Emit invoked the
\* first and the third and is about to return.
C25_Witness ==
  /\ Len(stack) = 1
  /\ AtReturn(stack[1])
  /\ stack[1].mut = "del"
  /\ stack[1].inv = <<1, 3>>
  /\ TokList(St, stack[1].sig) = <<1, 3>>
  /\ ~tok[2].live /\ tok[2].kind # "none"

\* C26: an Emit during which callbacks connect tokens and disconnect none
\* has, when it returns, invoked each token once, in list order: the tokens
\* it had invoked before each Connect, then the tokens standing after the
\* Slot's token in the list the Connect left. A token connected after the
\* Slot's position is therefore invoked by the same Emit, and one connected
\* at or before it is not.
C26_EmitWalksLiveList ==
  \A i \in 1..Len(stack) :
    (AtReturn(stack[i]) /\ stack[i].mut = "conn") =>
      /\ stack[i].inv = stack[i].entry
      /\ NoRepeat(stack[i].inv)
      /\ Range(stack[i].inv) \subseteq Range(TokList(St, stack[i].sig))

\* C26 witness: the callback of token 1, then the only token, connected
\* token 2 at the head and token 3 at the tail; the Emit went on to invoke
\* token 3, never token 2, and is about to return.
C26_Witness ==
  /\ Len(stack) = 1
  /\ AtReturn(stack[1])
  /\ stack[1].mut = "conn"
  /\ TokList(St, stack[1].sig) = <<2, 1, 3>>
  /\ stack[1].inv = <<1, 3>>

\* Token t is a connection of the kind, to the receiver (or signal) and to
\* the method that flt names.
Fits(t, flt) ==
  /\ tok[t].kind = flt.kind
  /\ tok[t].obj = flt.obj
  /\ tok[t].method = flt.method

\* s1 is the state an operation on signal g left: every token it destroyed
\* was in g's list and fits flt, g's list is its former list without them,
\* and every other list is as it was.
OnlyFitting(s1, g, flt) ==
  /\ \A t \in Ids : (tok[t].live /\ ~s1.tok[t].live) =>
        (t \in Range(TokList(St, g)) /\ Fits(t, flt))
  /\ TokList(s1, g) = SelectSeq(TokList(St, g), LAMBDA t : s1.tok[t].live)
  /\ \A h \in Signals \ {g} : TokList(s1, h) = TokList(St, h)
  /\ \A o \in Trackables :
        BndList(s1, o) = SelectSeq(BndList(St, o), LAMBDA b : s1.bnd[b].live)

\* C28: for every start_pos and counts, Disconnect(obj, method, ...) and
\* Disconnect(other, ...), and DisconnectAll(obj, method) and
\* DisconnectAll(other), destroy only tokens of the signal's own list that are
\* connections of the given kind to the given receiver and method (or to the
\* given signal); the tokens that remain keep their order and no other list
\* changes.
C28_FilteredDisconnectOnlyMatching ==
  \A g \in Signals \cap alive : \A flt \in Filters :
    /\ OnlyFitting(DisconnectAllMatchingOp(St, g, flt), g, flt)
    /\ \A start_pos \in NodeIndexes : \A counts \in (0 - 1)..MaxNodes :
         OnlyFitting(DisconnectMatchingOp(St, g, flt, start_pos, counts), g, flt)

\* C28 witness: N1's list holds connections to (R1, m1), to (R1, m2) and to
\* (R2, m1); disconnecting (R1, m1) removes the first and leaves the other
\* two in order.
C28_Witness ==
  /\ TokList(St, "N1") = <<1, 2, 3>>
  /\ Fits(1, MethodFilter("R1", "m1"))
  /\ Fits(2, MethodFilter("R1", "m2"))
  /\ Fits(3, MethodFilter("R2", "m1"))
  /\ TokList(DisconnectMatchingOp(St, "N1", MethodFilter("R1", "m1"), 0, 0 - 1),
             "N1") = <<2, 3>>
  /\ TokList(DisconnectAllMatchingOp(St, "N1", MethodFilter("R1", "m1")),
             "N1") = <<2, 3>>

\* C29: for every signal, CountConnections() is the number of live tokens the
\* signal owns; for every receiver and method (and every signal connected
\* to), IsConnectedTo is true exactly when CountConnections of the same
\* arguments is positive; and when that count c is at least 1,
\* Disconnect(obj, method, 0, k) with k >= c returns c and leaves the count
\* 0 and IsConnectedTo false.
C29_CountQueryDisconnectAgree ==
  \A g \in Signals \cap alive :
    /\ CountConnections(St, g)
         = Cardinality({t \in Ids : tok[t].live /\ tok[t].trackable = g})
    /\ \A flt \in Filters :
         LET c == CountConnectionsMatching(St, g, flt)
         IN  /\ IsConnectedToMatching(St, g, flt) <=> c > 0
             /\ c > 0 <=> Connected(g, flt)
             /\ \A k \in 1..(MaxNodes + 1) :
                  (c >= 1 /\ k >= c) =>
                    LET s1 == DisconnectMatchingOp(St, g, flt, 0, k)
                    IN  /\ s1.ret = c
                        /\ CountConnectionsMatching(s1, g, flt) = 0
                        /\ ~IsConnectedToMatching(s1, g, flt)
                        /\ CountConnections(s1, g) = CountConnections(St, g) - c

\* C29 witness: N1 is connected to (R1, m1) twice with a connection to
\* (R1, m2) between them; the count is 2 and Disconnect(R1, m1, 0, 2)
\* returns 2 and leaves only the connection to (R1, m2).
C29_Witness ==
  /\ TokList(St, "N1") = <<1, 2, 3>>
  /\ Fits(1, MethodFilter("R1", "m1"))
  /\ Fits(2, MethodFilter("R1", "m2"))
  /\ Fits(3, MethodFilter("R1", "m1"))
  /\ CountConnectionsMatching(St, "N1", MethodFilter("R1", "m1")) = 2
  /\ DisconnectMatchingOp(St, "N1", MethodFilter("R1", "m1"), 0, 2).ret = 2
  /\ TokList(DisconnectMatchingOp(St, "N1", MethodFilter("R1", "m1"), 0, 2),
             "N1") = <<2>>

\* The number of elements of q that satisfy Test.
CountIn(q, Test(_)) == Len(SelectSeq(q, Test))

\* The connections of signal g that fit flt are as many distinct live tokens
\* with as many distinct live bindings as CountConnections reports; the
\* default Disconnect of the same arguments removes one of them; and an Emit
\* that returns with no list changed has invoked as many fitting tokens, and
\* on a list without forwarding tokens has called the method as many times.
EveryConnectionCounts ==
  /\ \A g \in Signals \cap alive : \A flt \in Filters :
       LET c == CountConnectionsMatching(St, g, flt)
           fitting == {t \in Ids : /\ tok[t].live /\ tok[t].trackable = g
                                    /\ Fits(t, flt)}
       IN  /\ c = Cardinality(fitting)
           /\ c = Cardinality({tok[t].binding : t \in fitting})
           /\ \A t \in fitting : bnd[tok[t].binding].live
           /\ c >= 1 =>
                LET s1 == DisconnectMatchingOp(St, g, flt, DefaultStartPos,
                                               DefaultCounts)
                IN  /\ s1.ret = 1
                    /\ CountConnectionsMatching(s1, g, flt) = c - 1
  /\ \A i \in 1..Len(stack) :
       (AtReturn(stack[i]) /\ stack[i].mut = "none") =>
         \A flt \in Filters :
           LET c == CountConnectionsMatching(St, stack[i].sig, flt)
           IN  /\ CountIn(stack[i].inv, LAMBDA t : Fits(t, flt)) = c
               /\ ( /\ flt.kind = "delegate"
                    /\ \A t \in Range(stack[i].inv) : tok[t].kind = "delegate" )
                    => CountIn(stack[i].log,
                               LAMBDA e : e = <<flt.obj, flt.method,
                                                stack[i].args>>) = c

\* C31: every Connect, whatever the signal already holds, creates a new live
\* Token and Binding paired with each other, destroys nothing and raises
\* CountConnections() and CountConnections of its own arguments by exactly
\* one; so k connections to the same receiver and method are k pairs, are
\* counted k, are invoked k times by one Emit, and go one at a time with
\* each default Disconnect.
C31_ConnectNeverDeduplicates ==
  /\ []EveryConnectionCounts
  /\ [][ nextId' = nextId + 1 =>
           LET n == nextId
               g == tok'[n].trackable
               flt == [kind |-> tok'[n].kind, obj |-> tok'[n].obj,
                       method |-> tok'[n].method]
           IN  /\ ~tok[n].live /\ tok'[n].live /\ bnd'[n].live
               /\ tok'[n].binding = n /\ bnd'[n].token = n
               /\ g \in Signals
               /\ \A t \in Ids : (tok[t].live => tok'[t].live)
                                  /\ (bnd[t].live => bnd'[t].live)
               /\ CountConnections(StNext, g) = CountConnections(St, g) + 1
               /\ CountConnectionsMatching(StNext, g, flt)
                    = CountConnectionsMatching(St, g, flt) + 1
      ]_vars

\* C31 witness: R1's method m1 was connected to N1 three times; an Emit of
\* N1 is about to return having called it three times.
C31_Witness ==
  /\ Len(stack) = 1
  /\ AtReturn(stack[1])
  /\ stack[1].mut = "none"
  /\ stack[1].sig = "N1"
  /\ CountConnectionsMatching(St, "N1", MethodFilter("R1", "m1")) = 3
  /\ Len(stack[1].inv) = 3
  /\ stack[1].log = << <<"R1", "m1", NoArgs>>, <<"R1", "m1", NoArgs>>,
                       <<"R1", "m1", NoArgs>> >>

\* ------------------------------------------------ the Trackable attach helpers
\* The binding list of R1, to which new Bindings are attached by each of the
\* helpers, at every index.
AttachPushFront ==
  /\ nextId \in Ids
  /\ Commit(push_front(NewBinding(St, nextId), "R1", nextId))
  /\ nextId' = nextId + 1
  /\ UNCHANGED <<alive, ub>>

AttachPushBack ==
  /\ nextId \in Ids
  /\ Commit(push_back(NewBinding(St, nextId), "R1", nextId))
  /\ nextId' = nextId + 1
  /\ UNCHANGED <<alive, ub>>

AttachInsert(index) ==
  /\ nextId \in Ids
  /\ Commit(insert(NewBinding(St, nextId), "R1", nextId, index))
  /\ nextId' = nextId + 1
  /\ UNCHANGED <<alive, ub>>

AttachPushFrontBinding ==
  /\ nextId \in Ids
  /\ Commit(PushFrontBinding(NewBinding(St, nextId), "R1", nextId))
  /\ nextId' = nextId + 1
  /\ UNCHANGED <<alive, ub>>

NextAttach ==
  \/ AttachPushFront
  \/ AttachPushBack
  \/ \E index \in ListIndexes : AttachInsert(index)
  \/ AttachPushFrontBinding

SpecAttach == InitList /\ [][NextAttach]_vars

\* The bindings of state s reached from b following previous, b first.
RECURSIVE BindingsBackIn(_, _, _)
BindingsBackIn(s, b, fuel) ==
  IF b = Null \/ fuel = 0 THEN <<>>
  ELSE <<b>> \o BindingsBackIn(s, s.bnd[b].previous, fuel - 1)

\* s1 is the state an attach helper left when given the new Binding b for
\* R1: R1's list is the former list with b at position pos, read the same
\* from the tail, and b's trackable is R1.
AttachedAt(s1, b, pos) ==
  /\ BndList(s1, "R1") = InsertAt(BndList(St, "R1"), pos, b)
  /\ BindingsBackIn(s1, s1.last_binding["R1"], Cardinality(Ids))
       = Reverse(BndList(s1, "R1"))
  /\ s1.bnd[b].trackable = "R1"

\* C32: given an unattached Binding, push_front and PushFrontBinding make it
\* the first node of the receiver's list, push_back the last, and insert
\* with 0 <= index <= n the node at position index; the other Bindings keep
\* their order and the Binding's trackable is set.
C32_AttachHelpersPlaceByName ==
  nextId \in Ids =>
    LET b == nextId
        s0 == NewBinding(St, b)
        n == Len(BndList(St, "R1"))
    IN  /\ AttachedAt(push_front(s0, "R1", b), b, 0)
        /\ AttachedAt(PushFrontBinding(s0, "R1", b), b, 0)
        /\ AttachedAt(push_back(s0, "R1", b), b, n)
        /\ \A index \in 0..n : AttachedAt(insert(s0, "R1", b, index), b, index)

\* ------------------------------------------------- Emit running to its end
\* One signal and one receiver.  Connect and Emit are called outside Emit
\* only; callbacks disconnect what they like and may destroy the receiver.
\* Emit and its callbacks run on the caller's thread: a step of the Emit at
\* the top of the stack that can be taken is eventually taken.
InitTerm ==
  /\ Init
  /\ alive = ListObjects

EmitStep ==
  \/ EmitInvokeDelegate
  \/ CallbackReturn
  \/ EmitReturn
  \/ EmitInvokeFreed
  \/ EmitCrash

NextTerm ==
  \/ \E m \in Methods, index \in {0 - 1, 0} :
       stack = <<>> /\ Connect("N1", "R1", m, index)
  \/ \E start_pos \in {0 - 1, 0}, counts \in {1, 2} :
       Disconnect("N1", start_pos, counts)
  \/ DisconnectAll("N1")
  \/ Destroy("R1")
  \/ UnbindSignal
  \/ stack = <<>> /\ EmitBegin("N1")
  \/ EmitInvokeDelegate
  \/ CallbackReturn
  \/ EmitReturn
  \/ EmitInvokeFreed
  \/ EmitCrash

SpecTerm == InitTerm /\ [][NextTerm]_vars /\ WF_vars(EmitStep)

\* C27: an Emit whose callbacks connect nothing and emit nothing, and
\* disconnect what they like, eventually returns.
C27_EmitReturns == (stack # <<>>) ~> (stack = <<>>)

\* ------------------------------------------- the list operations on their own
\* Two signals and two receivers, operated from outside any Emit.
InitOps ==
  /\ Init
  /\ alive = Trackables

NextOps ==
  \/ \E sig \in Signals, obj \in Receivers, m \in Methods, index \in Indexes :
       Connect(sig, obj, m, index)
  \/ \E sig \in Signals, other \in Signals, index \in Indexes :
       ConnectSignal(sig, other, index)
  \/ \E sig \in Signals, start_pos \in Indexes, counts \in Counts :
       Disconnect(sig, start_pos, counts)
  \/ \E sig \in Signals, obj \in Receivers, m \in FilterMethods,
          start_pos \in FilterStarts, counts \in FilterCounts :
       DisconnectMethod(sig, obj, m, start_pos, counts)
  \/ \E sig \in Signals, other \in Signals,
          start_pos \in FilterStarts, counts \in FilterCounts :
       DisconnectSignal(sig, other, start_pos, counts)
  \/ \E sig \in Signals : DisconnectAll(sig)
  \/ \E o \in Trackables : Destroy(o)

SpecOps == InitOps /\ [][NextOps]_vars

\* ------------------------------------------- tokens attached by the caller
\* PushBackToken, PushFrontToken and InsertToken are public members of
\* SignalT: application code can attach a Token it allocated itself, which
\* has no Binding.  Two signals and one receiver; tokens are attached,
\* connections made and removed, the receiver destroyed and the signals
\* emitted.
TokenObjects == {"N1", "N2", "R1"}

\* The delegates and signals a caller's Token can hold.
TokenTargets ==
  {[kind |-> "delegate", obj |-> "R1", method |-> m] : m \in FilterMethods}
    \cup {[kind |-> "signal", obj |-> "N2", method |-> "emit"]}

InitTokens ==
  /\ Init
  /\ alive = TokenObjects

\* The loop of IsConnectedTo(obj, method) (first = TRUE: it returns at the
\* first match) and of CountConnections(obj, method) (first = FALSE) reads
\* it->binding->trackable of every token it visits: TRUE when it visits a
\* Token without a Binding.
RECURSIVE ReadsNullBinding(_, _, _, _)
ReadsNullBinding(s, it, flt, first) ==
  IF it = Null THEN FALSE
  ELSE IF s.tok[it].binding = Null THEN TRUE
  ELSE IF first /\ Match(s, it, flt) THEN FALSE
  ELSE ReadsNullBinding(s, s.tok[it].next, flt, first)

\* sig.IsConnectedTo(obj, &T::method) on a list where the walk reaches a
\* Token without a Binding: the read through the null pointer faults.
IsConnectedToCall(sig, obj, method) ==
  /\ CanCall
  /\ sig \in alive /\ obj \in alive
  /\ ReadsNullBinding(St, first_token[sig], MethodFilter(obj, method), TRUE)
  /\ ub' = "crash"
  /\ UNCHANGED <<tok, bnd, first_token, last_token, first_binding,
                 last_binding, stack, alive, nextId, dfree>>

\* sig.CountConnections(obj, &T::method) on a list that holds a Token
\* without a Binding: the read through the null pointer faults.
CountConnectionsCall(sig, obj, method) ==
  /\ CanCall
  /\ sig \in alive /\ obj \in alive
  /\ ReadsNullBinding(St, first_token[sig], MethodFilter(obj, method), FALSE)
  /\ ub' = "crash"
  /\ UNCHANGED <<tok, bnd, first_token, last_token, first_binding,
                 last_binding, stack, alive, nextId, dfree>>

\* sig.IsConnectedTo(other) on a list where the walk reaches a Token
\* without a Binding.
IsConnectedToSignalCall(sig, other) ==
  /\ CanCall
  /\ sig \in alive /\ other \in alive
  /\ ReadsNullBinding(St, first_token[sig], SignalFilter(other), TRUE)
  /\ ub' = "crash"
  /\ UNCHANGED <<tok, bnd, first_token, last_token, first_binding,
                 last_binding, stack, alive, nextId, dfree>>

\* sig.CountConnections(other) on a list that holds a Token without a
\* Binding.
CountConnectionsSignalCall(sig, other) ==
  /\ CanCall
  /\ sig \in alive /\ other \in alive
  /\ ReadsNullBinding(St, first_token[sig], SignalFilter(other), FALSE)
  /\ ub' = "crash"
  /\ UNCHANGED <<tok, bnd, first_token, last_token, first_binding,
                 last_binding, stack, alive, nextId, dfree>>

\* The loop of IsConnectedTo(const Trackable *obj) reads
\* token->binding->trackable and then binding->token->trackable at every
\* step it takes: TRUE when one of the two reads goes through a null pointer
\* before the loop has returned.
RECURSIVE LockstepReadsNull(_, _, _, _, _)
LockstepReadsNull(s, sig, obj, token, binding) ==
  IF token = Null \/ binding = Null THEN FALSE
  ELSE IF s.tok[token].binding = Null THEN TRUE
  ELSE IF s.bnd[s.tok[token].binding].trackable = obj THEN FALSE
  ELSE IF s.bnd[binding].token = Null THEN TRUE
  ELSE IF s.tok[s.bnd[binding].token].trackable = sig THEN FALSE
  ELSE LockstepReadsNull(s, sig, obj, s.tok[token].next, s.bnd[binding].next)

\* sig.IsConnectedTo((Trackable *) obj) when the lockstep walk reads through
\* a null pointer.
IsConnectedToTrackableCall(sig, obj) ==
  /\ CanCall
  /\ sig \in alive /\ obj \in alive
  /\ LockstepReadsNull(St, sig, obj, first_token[sig], first_binding[obj])
  /\ ub' = "crash"
  /\ UNCHANGED <<tok, bnd, first_token, last_token, first_binding,
                 last_binding, stack, alive, nextId, dfree>>

\* One pass of the loop head on a live Token whose delegate or signal_
\* points at a destroyed object (no Binding tied the Token to the object's
\* life): Invoke calls into the freed object.  The Emit of a freed signal
\* starts its Slot on what the block holds where first_token_ was.
EmitInvokeDestroyed ==
  /\ ub # "crash"
  /\ stack # <<>> /\ Top.pc = "loop"
  /\ Top.token_ # Null /\ tok[Top.token_].live
  /\ tok[Top.token_].obj \notin alive
  /\ tok[Top.token_].kind = "signal" => Len(stack) < MaxDepth
  /\ LET i == Len(stack)
         s1 == Invoked(PushBackMark(St, i), i)
     IN  IF tok[Top.token_].kind = "delegate"
           THEN Commit([Delegated(s1, i) EXCEPT !.stack[i].pc = "cb",
                           !.stack[i].self = tok[Top.token_].obj])
           ELSE \E t \in FirstTokenRead(tok[Top.token_].obj) :
                  Commit([s1 EXCEPT !.stack =
                            Append([s1.stack EXCEPT ![i].pc = "fwd"],
                                   [SignalTokenInvoke(Top) EXCEPT !.token_ = t])])
  /\ ub' = "uaf"
  /\ UNCHANGED <<alive, nextId>>

\* The same pass when the call into the freed object faults.
EmitCrashDestroyed ==
  /\ ub # "crash"
  /\ stack # <<>> /\ Top.pc = "loop"
  /\ Top.token_ # Null /\ tok[Top.token_].live
  /\ tok[Top.token_].obj \notin alive
  /\ ub' = "crash"
  /\ UNCHANGED <<tok, bnd, first_token, last_token, first_binding,
                 last_binding, stack, alive, nextId, dfree>>

NextTokens ==
  \/ \E m \in FilterMethods, index \in {0 - 1, 0} :
       stack = <<>> /\ Connect("N1", "R1", m, index)
  \/ \E d \in TokenTargets : PushBackTokenCall("N1", d.kind, d.obj, d.method)
  \/ \E d \in TokenTargets :
       stack = <<>> /\ PushFrontTokenCall("N1", d.kind, d.obj, d.method)
  \/ \E d \in TokenTargets, index \in {0 - 2, 1} :
       stack = <<>> /\ InsertTokenCall("N1", d.kind, d.obj, d.method, index)
  \/ \E start_pos \in {0 - 1, 0} : Disconnect("N1", start_pos, 1)
  \/ DisconnectAll("N1")
  \/ \E m \in FilterMethods, start_pos \in {0 - 1, 0} :
       DisconnectMethod("N1", "R1", m, start_pos, 1)
  \/ \E m \in FilterMethods : DisconnectAllMethod("N1", "R1", m)
  \/ DisconnectAllSignal("N1", "N2")
  \/ \E m \in FilterMethods : IsConnectedToCall("N1", "R1", m)
  \/ \E m \in FilterMethods : CountConnectionsCall("N1", "R1", m)
  \/ IsConnectedToSignalCall("N1", "N2")
  \/ CountConnectionsSignalCall("N1", "N2")
  \/ \E o \in {"R1", "N2"} : IsConnectedToTrackableCall("N1", o)
  \/ BindingTrackableCall
  \/ \E o \in {"R1", "N2"} : Destroy(o)
  \/ UnbindSignal
  \/ stack = <<>> /\ EmitBegin("N1")
  \/ EmitInvokeDelegate
  \/ EmitInvokeSignal
  \/ EmitInvokeDestroyed
  \/ EmitCrashDestroyed
  \/ CallbackReturn
  \/ EmitReturn
  \/ EmitInvokeFreed
  \/ EmitInvokeFreedSignal
  \/ EmitCrash

SpecTokens == InitTokens /\ [][NextTokens]_vars

\* The caller attached three Tokens to N1 with PushBackToken, PushFrontToken
\* and InsertToken(1, ...): the list is the second, the third, the first, and
\* none of them has a Binding; R1's binding list is empty.
TokensAttachedByCaller ==
  /\ TokList(St, "N1") = <<2, 3, 1>>
  /\ \A t \in {1, 2, 3} : tok[t].live /\ tok[t].binding = Null
  /\ tok[1].method = "m1" /\ tok[2].method = "m2" /\ tok[3].method = "m1"
  /\ first_binding["R1"] = Null

====
